---------------------------- MODULE Spec2Model ----------------------------
(***************************************************************************)
(* Model of the per-group phenology pipeline of                            *)
(* src/src/Phenology_Tab1_Fig9.py: the body of the station/decade loop     *)
(* (lines 57-136): seasonal curve building, start-of-season, its           *)
(* bootstrap, area under curve, peak and the peak bootstrap.               *)
(*                                                                         *)
(* Arithmetic is exact.  A concentration is an integer number of units of  *)
(* 1/Scale, where Scale is a common multiple of every denominator the      *)
(* daily means and the linear interpolation can produce for the            *)
(* enumerated observations; a smoothed value is a rational                 *)
(* [num, den] in the same units.  Floating-point rounding is not modelled. *)
(***************************************************************************)
EXTENDS Integers, Sequences, FiniteSets, TLC

(***************************************************************************)
(* Bounds of the model.                                                    *)
(***************************************************************************)
\* Largest number of observations of one station/decade group.
MaxObs == 2
\* Number of bootstrap iterations explored (num_bootstrap_samples is 1000).
MaxBootstrap == 2

\* Days of year on which the enumerated observations fall.  365 is a day
\* the reindexed range (1..364) does not hold.
ObsDoys == {180, 210, 240, 300, 365}
\* Concentrations of the enumerated observations.
ChlaValues == {0, 1}

(***************************************************************************)
(* Program constants.                                                      *)
(***************************************************************************)
window_size == 30
uncert_window == 20
num_bootstrap_samples == MaxBootstrap
\* basin_data.reindex(list(range(1,365)))
ReindexStart == 1
ReindexStop == 365
\* basin_data_daily[150:290]
SliceStart == 150
SliceStop == 290
\* (doy >= 120) & (doy <= 304)
MayOctFirst == 120
MayOctLast == 304
\* threshold = min_chla + 0.2 * amplitude, 0.2 = ThresholdNum / ThresholdDen
ThresholdNum == 1
ThresholdDen == 5
\* auc_mask: doy <= 304
AucLast == 304
\* The absent value (None) of a day or a position.
None == -1

(***************************************************************************)
(* Integer and rational helpers.                                           *)
(***************************************************************************)
Min2(a, b) == IF a <= b THEN a ELSE b
Max2(a, b) == IF a >= b THEN a ELSE b
SetMin(S) == CHOOSE x \in S : \A y \in S : x <= y
SetMax(S) == CHOOSE x \in S : \A y \in S : x >= y

RECURSIVE Gcd(_, _)
Gcd(a, b) == IF b = 0 THEN a ELSE Gcd(b, a % b)
Lcm(a, b) == (a \div Gcd(a, b)) * b

RECURSIVE LcmOf(_)
LcmOf(S) == IF S = {} THEN 1
            ELSE LET x == CHOOSE x \in S : TRUE IN Lcm(x, LcmOf(S \ {x}))

\* n / d for a division known to be exact (no value otherwise).
ExactDiv(n, d) == CHOOSE q \in {n \div d} : q * d = n

\* Common denominator of the gap-filled concentrations: every count of
\* same-day observations and every gap between two observed days of the
\* reindexed range divides it.
ObsGaps == {b - a : a, b \in {d \in ObsDoys : d < ReindexStop}} \ (-ReindexStop..0)
Scale == LcmOf(1..MaxObs) * LcmOf(ObsGaps)

\* Rationals num/den with den > 0.
Rat(n, d) == [num |-> n, den |-> d]
\* The absent value (None) of a rational and of an area.
NoneRat == Rat(0, 0)
NoneArea == <<>>
RatLt(a, b) == LET g == Gcd(a.den, b.den)
               IN a.num * (b.den \div g) < b.num * (a.den \div g)
RatEq(a, b) == LET g == Gcd(a.den, b.den)
               IN a.num * (b.den \div g) = b.num * (a.den \div g)
RatLe(a, b) == LET g == Gcd(a.den, b.den)
               IN a.num * (b.den \div g) <= b.num * (a.den \div g)
RatAdd(a, b) == LET l == Lcm(a.den, b.den)
                IN Rat(a.num * (l \div a.den) + b.num * (l \div b.den), l)
RatSub(a, b) == RatAdd(a, Rat(0 - b.num, b.den))
RatMul(a, n, d) == Rat(a.num * n, a.den * d)

\* Python's s[a:b] on a sequence (positions from 0, b exclusive, clipped).
PySlice(s, a, b) == SubSeq(s, a + 1, Min2(b, Len(s)))

(***************************************************************************)
(* SeasonalCurveBuilder: lines 61-69.                                      *)
(***************************************************************************)
\* Indices of the observations of day d.
ObsOfDay(obs, d) == {i \in 1..Len(obs) : obs[i].doy = d}

RECURSIVE SumChla(_, _)
SumChla(obs, I) == IF I = {} THEN 0
                   ELSE LET i == CHOOSE i \in I : TRUE
                        IN obs[i].chla + SumChla(obs, I \ {i})

\* groupby(['doy'])['chla'].mean(): day -> mean concentration, in units of
\* 1/Scale.  The enumerated concentrations are numbers, so dropna keeps
\* every day.
GroupMean(obs) ==
    [d \in {obs[i].doy : i \in 1..Len(obs)} |->
        ExactDiv(Scale * SumChla(obs, ObsOfDay(obs, d)),
                 Cardinality(ObsOfDay(obs, d)))]

\* reindex(list(range(1,365))): the days of the daily frame.
ReindexDays == ReindexStart..(ReindexStop - 1)

\* temp_data_daily: the days of the reindexed frame that hold a value.
TempDays(means) == DOMAIN means \cap ReindexDays

\* interp1d(kind='linear') evaluated at x inside [min, max] of xs.
Interp1d(xs, ys, x) ==
    LET a == SetMax({t \in xs : t <= x})
        b == SetMin({t \in xs : t >= x})
    IN IF a = b THEN ys[a]
       ELSE ys[a] + ExactDiv((ys[b] - ys[a]) * (x - a), b - a)

\* np.clip(doy, min, max)
Clip(x, lo, hi) == Min2(Max2(x, lo), hi)

\* The gap-filled daily frame: one row per reindexed day, in day order.
GapFilled(means) ==
    LET xs == TempDays(means)
        lo == SetMin(xs)
        hi == SetMax(xs)
    IN [k \in 1..(ReindexStop - ReindexStart) |->
          LET d == ReindexStart + k - 1
          IN [doy |-> d, chla |-> Interp1d(xs, means, Clip(d, lo, hi))]]

\* The left end of a window that reaches as far to the left as to the right.
RollLoEven(i) == Max2(1, i - ((window_size - 1) \div 2))

\* Window of rolling(window, center=True, min_periods=1) at position i of n
\* (positions from 1): offset (window-1)//2 to the right, the rest to the
\* left, clipped to the frame.
RollLo(i) == Max2(1, i + ((window_size - 1) \div 2) - window_size + 1)
RollHi(i, n) == Min2(n, i + ((window_size - 1) \div 2))

\* Running sums of xs[lo..hi] on top of base, by halving: the j-th element is
\* base + xs[lo] + ... + xs[lo + j - 1].
RECURSIVE RunningSums(_, _, _, _)
RunningSums(xs, lo, hi, base) ==
    IF lo = hi THEN <<RatAdd(base, xs[lo])>>
    ELSE LET m == (lo + hi) \div 2
             left == RunningSums(xs, lo, m, base)
         IN left \o RunningSums(xs, m + 1, hi, left[Len(left)])

\* CumSum(xs)[j] is the sum of the first j-1 values of xs.
CumSum(xs) == IF Len(xs) = 0 THEN <<Rat(0, 1)>>
              ELSE <<Rat(0, 1)>> \o RunningSums(xs, 1, Len(xs), Rat(0, 1))

\* rolling(...).mean() of a sequence of rationals.
RollingMean(xs) ==
    LET n == Len(xs)
        p == CumSum(xs)
    IN [i \in 1..n |->
          LET lo == RollLo(i)
              hi == RollHi(i, n)
          IN RatMul(RatSub(p[hi + 1], p[lo]), 1, hi - lo + 1)]

\* Lines 61-69 for a group whose reindexed frame holds a value.
BuildCurve(obs) ==
    LET rows == PySlice(GapFilled(GroupMean(obs)), SliceStart, SliceStop)
        avg == RollingMean([i \in 1..Len(rows) |-> Rat(rows[i].chla, 1)])
    IN [i \in 1..Len(rows) |->
          [doy |-> rows[i].doy, chla |-> rows[i].chla, chla_avg |-> avg[i]]]

(***************************************************************************)
(* PhenologyExtractor: lines 71-82 (SOS), 100-105 (AUC), 107-110 (peak).   *)
(***************************************************************************)
\* xs[lo..hi] is not empty: the position of its least / greatest value,
\* the first one among equals (np.argmax returns the first maximum).
RECURSIVE ArgMin(_, _, _)
ArgMin(xs, lo, hi) ==
    IF lo = hi THEN lo
    ELSE LET m == (lo + hi) \div 2
             l == ArgMin(xs, lo, m)
             r == ArgMin(xs, m + 1, hi)
         IN IF RatLt(xs[r], xs[l]) THEN r ELSE l

RECURSIVE ArgMax(_, _, _)
ArgMax(xs, lo, hi) ==
    IF lo = hi THEN lo
    ELSE LET m == (lo + hi) \div 2
             l == ArgMax(xs, lo, m)
             r == ArgMax(xs, m + 1, hi)
         IN IF RatLt(xs[l], xs[r]) THEN r ELSE l

\* The chla_avg column of a frame.
ChlaAvg(rows) == [i \in 1..Len(rows) |-> rows[i].chla_avg]

\* Series.min() / Series.max() of a column that is not empty.
SeriesMin(xs) == xs[ArgMin(xs, 1, Len(xs))]
SeriesMax(xs) == xs[ArgMax(xs, 1, Len(xs))]

\* may_oct_mask: the rows with 120 <= doy <= 304, in frame order.
InMayOct(row) == row.doy >= MayOctFirst /\ row.doy <= MayOctLast
MayOct(rows) == SelectSeq(rows, InMayOct)

\* amplitude = max_chla - min_chla
Amplitude(xs) == RatSub(SeriesMax(xs), SeriesMin(xs))

\* The fraction of the amplitude alone.
ThresholdOfAmplitude(xs) ==
    RatMul(Amplitude(xs), ThresholdNum, ThresholdDen)

\* threshold = min_chla + 0.2 * amplitude
Threshold(xs) ==
    RatAdd(SeriesMin(xs), RatMul(Amplitude(xs), ThresholdNum, ThresholdDen))

\* sos_candidates = frame[values > threshold]; the doy of its first row, or
\* None when it is empty.  values[i] is the value compared for row i.
ExceedsOrEquals(v, threshold) == RatLe(threshold, v)

Exceeds(v, threshold) == RatLt(threshold, v)

\* The doy of the last row above the threshold in place of the first.
LastCandidate(rows, values, threshold) ==
    LET cand == {i \in 1..Len(rows) : Exceeds(values[i], threshold)}
    IN IF cand = {} THEN None ELSE rows[SetMax(cand)].doy

FirstCandidate(rows, values, threshold) ==
    LET cand == {i \in 1..Len(rows) : Exceeds(values[i], threshold)}
    IN IF cand = {} THEN None ELSE rows[SetMin(cand)].doy

\* Lines 72-82.
ComputeSos(rows) ==
    LET may == MayOct(rows)
    IN FirstCandidate(may, ChlaAvg(may), Threshold(ChlaAvg(may)))

\* Sum of f[lo..hi] (0 when empty), by halving.
RECURSIVE SumInts(_, _, _)
SumInts(f, lo, hi) ==
    IF lo > hi THEN 0
    ELSE IF lo = hi THEN f[lo]
    ELSE LET m == (lo + hi) \div 2
         IN SumInts(f, lo, m) + SumInts(f, m + 1, hi)

\* The part of a rational that a sum with denominator c holds.
NumAt(v, c) == IF v.den = c THEN v.num ELSE 0

\* np.trapezoid(y, x) = sum of (x[i+1] - x[i]) * (y[i+1] + y[i]) / 2.
\* The smoothed values have the window counts as denominators, whose least
\* common multiple is too large for one fraction, so the area is held as
\* its numerators by denominator: twice the area is the sum over c of
\* result[c] / c.
Trapezoid(ys, xs) ==
    [c \in 1..window_size |->
        SumInts([i \in 1..(Len(xs) - 1) |->
                    (xs[i + 1] - xs[i]) * (NumAt(ys[i + 1], c) + NumAt(ys[i], c))],
                1, Len(xs) - 1)]

\* The rows after the SOS day.
AucRowsAfterSos(may, sos) ==
    LET InAuc(row) == row.doy > sos /\ row.doy <= AucLast
    IN SelectSeq(may, InAuc)

\* auc_mask: (doy >= sos) & (doy <= 304)
AucRows(may, sos) ==
    LET InAuc(row) == row.doy >= sos /\ row.doy <= AucLast
    IN SelectSeq(may, InAuc)

\* Lines 101-105.
ComputeAuc(rows, sos) ==
    IF sos # None
    THEN LET sel == AucRows(MayOct(rows), sos)
         IN Trapezoid(ChlaAvg(sel), [i \in 1..Len(sel) |-> sel[i].doy])
    ELSE NoneArea

\* The position of the last greatest value of xs[lo..hi].
RECURSIVE ArgMaxLast(_, _, _)
ArgMaxLast(xs, lo, hi) ==
    IF lo = hi THEN lo
    ELSE LET m == (lo + hi) \div 2
             l == ArgMaxLast(xs, lo, m)
             r == ArgMaxLast(xs, m + 1, hi)
         IN IF RatLe(xs[l], xs[r]) THEN r ELSE l

PeakIndexLast(rows) == ArgMaxLast(ChlaAvg(rows), 1, Len(rows)) - 1

\* peak_index = np.argmax(chla_avg), as a position from 0.
PeakIndex(rows) == ArgMax(ChlaAvg(rows), 1, Len(rows)) - 1

(***************************************************************************)
(* BootstrapEstimator: lines 84-98 (SOS) and 112-120 (peak).               *)
(***************************************************************************)
\* The elements of a set of integers in increasing order.
Sorted(S) == [i \in 1..Cardinality(S) |->
                CHOOSE d \in S : Cardinality({e \in S : e < d}) = i - 1]

\* The row of day d of a frame that holds each day once.
RowOfDay(rows, d) == rows[CHOOSE i \in 1..Len(rows) : rows[i].doy = d]

\* The resamples explored.  data_may_oct.sample(frac=1, replace=True) draws
\* as many rows as the frame has; the draws explored take the rows of the
\* days of one of these sets only, each day equally often.  The days are
\* days whose smoothing window is full, which keeps the sums of resampled
\* values on one denominator.
SosDraws == {{170}, {170, 260}}

\* sample.sort_values('doy') for the draw that takes the days D.
Resample(may, D) ==
    LET n == Len(may)
        days == Sorted(D)
        picked == [k \in 1..Len(days) |-> RowOfDay(may, days[k])]
    IN [j \in 1..n |-> picked[((j - 1) * Len(days)) \div n + 1]]

\* Lines 89-96: the SOS of one sorted resample, None without a candidate.
BootSos(smp) ==
    LET chla_smooth == RollingMean(ChlaAvg(smp))
    IN FirstCandidate(smp, ChlaAvg(smp), Threshold(chla_smooth))

\* Lines 95-97: a defined sos_boot is appended to bootstrap_sos, an
\* iteration without a candidate appends nothing.
CollectZero(boot, sos_boot) ==
    Append(boot, IF sos_boot # None THEN sos_boot ELSE 0)

Collect(boot, sos_boot) ==
    IF sos_boot # None THEN Append(boot, sos_boot) ELSE boot

\* Sum of the first k elements of a short list of integers or squares.
RECURSIVE SumList(_, _)
SumList(xs, k) == IF k = 0 THEN 0 ELSE xs[k] + SumList(xs, k - 1)

\* np.std(xs) of a list that is not empty, held as its square (the
\* population variance), a rational.
StdSquared(xs) ==
    LET n == Len(xs)
        s1 == SumList(xs, n)
        s2 == SumList([i \in 1..n |-> xs[i] * xs[i]], n)
    IN Rat(n * s2 - s1 * s1, n * n)

\* A spread asked of at least two values.
SosStdOfTwo(boot) == IF Len(boot) > 1 THEN StdSquared(boot) ELSE NoneRat

\* sos_std = np.std(bootstrap_sos) if bootstrap_sos else None
SosStd(boot) == IF Len(boot) > 0 THEN StdSquared(boot) ELSE NoneRat

\* start_index / end_index (positions from 0, end exclusive).
StartIndex(peak_index) == Max2(0, peak_index - uncert_window)
EndIndex(rows, peak_index) == Min2(Len(rows), peak_index + uncert_window + 1)

\* data_window = basin_data_daily[start_index:end_index]
DataWindow(rows, peak_index) ==
    PySlice(rows, StartIndex(peak_index), EndIndex(rows, peak_index))

\* dates_window = dates[start_index:end_index]
DatesWindow(rows, peak_index) ==
    LET w == DataWindow(rows, peak_index) IN [i \in 1..Len(w) |-> w[i].doy]

\* The subsamples explored.  np.random.choice(dates_window,
\* size=len(dates_window)//2, replace=False) draws that many distinct days;
\* the draws explored are the first and the last such run of the window.
PeakDraws(dates) ==
    LET n == Len(dates)
        size == n \div 2
    IN {{dates[i] : i \in (o + 1)..(o + size)} : o \in {0, n - size}}

\* Line 119 for one subsample: the rows of the window whose day is in the
\* subsample, the position of their greatest value, and the day the window
\* holds at that position.
BootPeak(window, smp) ==
    LET InSample(row) == row.doy \in smp
        sub == SelectSeq(window, InSample)
        pos == ArgMax(ChlaAvg(sub), 1, Len(sub)) - 1
    IN window[pos + 1].doy

\* std2 = 2 * np.std(bootstrap_median_dates), held as its square.
Std2(dates) == RatMul(StdSquared(dates), 4, 1)

(***************************************************************************)
(* State.                                                                  *)
(***************************************************************************)
VARIABLES
    pc,                      \* position in the loop body
    group_obs,               \* df_filtered[df_filtered['Basin'] == basin]
    basin_data_daily,        \* the seasonal curve (rows in day order)
    sos,                     \* start of season, or None
    amplitude,
    sample,                  \* the last sorted resample of the SOS bootstrap
    boot_k,                  \* iterations of the SOS bootstrap done
    bootstrap_sos,
    sos_std,                 \* the square of sos_std, or None
    auc,                     \* see Trapezoid, or None
    peak_index,
    peak_doy,
    peak_value,
    bootstrap_samples,
    bootstrap_median_dates,
    std2,                    \* the square of std2
    results,
    df,                      \* the observations read from the CSV file
    cond_i,                  \* i of enumerate(conditions)
    basin_k,                 \* position in the list of basins
    results_df,              \* pd.DataFrame(results)
    results_df_filtered,     \* the corrected copy
    mean_doy_values,
    all_years,
    all_doys,
    all_weights,
    stdout,                  \* what the trend analysis has printed
    sens_x,                  \* arguments of one call of sens_slope
    sens_y,
    sens_out,                \* its return value
    src_exists,              \* os.path.exists("src")
    data_exists,             \* os.path.exists("data")
    script_k,                \* scripts of the list that run_script has handled
    started,                 \* the scripts handed to subprocess.run, in order
    running,                 \* the script whose subprocess has not finished
    outcomes,                \* how each call of subprocess.run ended
    success_count,
    exit_status,             \* the argument of sys.exit, or None
    fit_script,              \* which of the two fitting scripts runs
    has_data,                \* per combination: filtered_data holds rows
    combo_k,                 \* combinations the fit loop has handled
    label_k,                 \* models fitted for the current combination
    annotations,             \* per handled combination, its annotations
    fit_results,             \* results[label]['r2'] / ['rmse'] entries
    fit_printed,             \* what the fit loop has printed
    fit_calls                \* the fits attempted so far and how they ended

curve_vars == <<basin_data_daily, sos, amplitude>>
sos_boot_vars == <<sample, boot_k, bootstrap_sos>>
metric_vars == <<sos_std, auc, peak_index, peak_doy, peak_value>>
peak_boot_vars == <<bootstrap_median_dates, std2, results>>

loop_vars == <<df, cond_i, basin_k>>
trend_vars == <<results_df, results_df_filtered, mean_doy_values,
                all_years, all_doys, all_weights, stdout>>
sens_vars == <<sens_x, sens_y, sens_out>>
\* The state outside the body of the station/decade loop.
run_vars == <<src_exists, data_exists, script_k, started, running, outcomes,
              success_count, exit_status>>
fit_vars == <<fit_script, has_data, combo_k, label_k, annotations,
              fit_results, fit_printed, fit_calls>>
tool_vars == <<run_vars, fit_vars>>
script_vars == <<loop_vars, trend_vars, sens_vars, tool_vars>>

vars == <<pc, group_obs, curve_vars, sos_boot_vars, metric_vars,
          bootstrap_samples, peak_boot_vars, script_vars>>

\* The state outside the loop body before the script has touched it.
LoopIdle == df = <<>> /\ cond_i = 0 /\ basin_k = 0
TrendIdle ==
    /\ results_df = <<>>
    /\ results_df_filtered = <<>>
    /\ mean_doy_values = <<>>
    /\ all_years = <<>>
    /\ all_doys = <<>>
    /\ all_weights = <<>>
    /\ stdout = <<>>
SensIdle == sens_x = <<>> /\ sens_y = <<>> /\ sens_out = NoneRat
\* run_all_analyses.py and the fitting scripts are not running.
RunIdle ==
    /\ src_exists = FALSE /\ data_exists = FALSE
    /\ script_k = 0 /\ started = <<>> /\ running = "" /\ outcomes = <<>>
    /\ success_count = 0 /\ exit_status = None
FitIdle ==
    /\ fit_script = "" /\ has_data = <<>> /\ combo_k = 0 /\ label_k = 0
    /\ annotations = <<>> /\ fit_results = <<>> /\ fit_printed = <<>>
    /\ fit_calls = <<>>
ToolsIdle == RunIdle /\ FitIdle

\* The observation sets enumerated: sequences in a canonical order.
ObsKinds == [doy : ObsDoys, chla : ChlaValues]
ObsRank(o) == o.doy * (SetMax(ChlaValues) + 1) + o.chla
Groups == UNION {{s \in [1..n -> ObsKinds] :
                    \A i \in 1..(n - 1) : ObsRank(s[i]) <= ObsRank(s[i + 1])}
                 : n \in 0..MaxObs}

Init ==
    /\ pc = "start"
    /\ group_obs \in Groups
    /\ basin_data_daily = <<>>
    /\ sos = None
    /\ amplitude = NoneRat
    /\ sample = <<>>
    /\ boot_k = 0
    /\ bootstrap_sos = <<>>
    /\ sos_std = NoneRat
    /\ auc = NoneArea
    /\ peak_index = None
    /\ peak_doy = None
    /\ peak_value = NoneRat
    /\ bootstrap_samples = <<>>
    /\ bootstrap_median_dates = <<>>
    /\ std2 = NoneRat
    /\ results = <<>>
    /\ LoopIdle /\ TrendIdle /\ SensIdle /\ ToolsIdle

\* Line 59: if len(basin_data) == 0: continue
SkipGroup ==
    /\ pc = "start"
    /\ Len(group_obs) = 0
    /\ pc' = "skipped"
    /\ UNCHANGED <<group_obs, curve_vars, sos_boot_vars, metric_vars,
                   bootstrap_samples, peak_boot_vars>>
    /\ UNCHANGED script_vars

\* Line 65: interp1d on a frame without a defined day raises ValueError,
\* which nothing catches: the run stops.
BuildAborts ==
    /\ pc = "start"
    /\ Len(group_obs) > 0
    /\ TempDays(GroupMean(group_obs)) = {}
    /\ pc' = "aborted"
    /\ UNCHANGED <<group_obs, curve_vars, sos_boot_vars, metric_vars,
                   bootstrap_samples, peak_boot_vars>>
    /\ UNCHANGED script_vars

\* Lines 61-85: the curve, the SOS and the empty bootstrap list.
Build ==
    /\ pc = "start"
    /\ Len(group_obs) > 0
    /\ TempDays(GroupMean(group_obs)) # {}
    /\ LET rows == BuildCurve(group_obs)
       IN /\ basin_data_daily' = rows
          /\ amplitude' = Amplitude(ChlaAvg(MayOct(rows)))
          /\ sos' = ComputeSos(rows)
    /\ bootstrap_sos' = <<>>
    /\ boot_k' = 0
    /\ pc' = "sos_boot"
    /\ UNCHANGED <<group_obs, sample, metric_vars, bootstrap_samples,
                   peak_boot_vars>>
    /\ UNCHANGED script_vars

\* Lines 86-97: one iteration of the SOS bootstrap.
SosBootIter ==
    /\ pc = "sos_boot"
    /\ boot_k < num_bootstrap_samples
    /\ \E D \in SosDraws :
          LET smp == Resample(MayOct(basin_data_daily), D)
              sos_boot == BootSos(smp)
          IN /\ sample' = smp
             /\ bootstrap_sos' = Collect(bootstrap_sos, sos_boot)
    /\ boot_k' = boot_k + 1
    /\ UNCHANGED <<pc, group_obs, curve_vars, metric_vars, bootstrap_samples,
                   peak_boot_vars>>
    /\ UNCHANGED script_vars

\* Lines 98-117: SOS uncertainty, AUC and the peak.
Extract ==
    /\ pc = "sos_boot"
    /\ boot_k = num_bootstrap_samples
    /\ sos_std' = SosStd(bootstrap_sos)
    /\ auc' = ComputeAuc(basin_data_daily, sos)
    /\ LET idx == PeakIndex(basin_data_daily)
       IN /\ peak_index' = idx
          /\ peak_doy' = basin_data_daily[idx + 1].doy
          /\ peak_value' = basin_data_daily[idx + 1].chla_avg
    /\ bootstrap_samples' = <<>>
    /\ pc' = "peak_boot"
    /\ UNCHANGED <<group_obs, curve_vars, sos_boot_vars, peak_boot_vars>>
    /\ UNCHANGED script_vars

\* Line 118: one subsample of the peak bootstrap.
PeakDraw ==
    /\ pc = "peak_boot"
    /\ Len(bootstrap_samples) < num_bootstrap_samples
    /\ \E smp \in PeakDraws(DatesWindow(basin_data_daily, peak_index)) :
          bootstrap_samples' = Append(bootstrap_samples, smp)
    /\ UNCHANGED <<pc, group_obs, curve_vars, sos_boot_vars, metric_vars,
                   peak_boot_vars>>
    /\ UNCHANGED script_vars

\* The row appended to results (lines 126-136).
ResultRow(dates) ==
    [peak_doy |-> peak_doy, peak_value |-> peak_value, std2 |-> Std2(dates),
     sos |-> sos, sos_std |-> sos_std, amplitude |-> amplitude, auc |-> auc]

\* Lines 119-136: the bootstrap peak days, std2 and the result row.
Finish ==
    /\ pc = "peak_boot"
    /\ Len(bootstrap_samples) = num_bootstrap_samples
    /\ LET window == DataWindow(basin_data_daily, peak_index)
           dates == [k \in 1..Len(bootstrap_samples) |->
                        BootPeak(window, bootstrap_samples[k])]
       IN /\ bootstrap_median_dates' = dates
          /\ std2' = Std2(dates)
          /\ results' = Append(results, ResultRow(dates))
    /\ pc' = "done"
    /\ UNCHANGED <<group_obs, curve_vars, sos_boot_vars, metric_vars,
                   bootstrap_samples>>
    /\ UNCHANGED script_vars

Next ==
    \/ SkipGroup
    \/ BuildAborts
    \/ Build
    \/ SosBootIter
    \/ Extract
    \/ PeakDraw
    \/ Finish

Spec == Init /\ [][Next]_vars

(***************************************************************************)
(* Properties of the seasonal curve and of the extracted metrics.          *)
(***************************************************************************)
\* The group has been through the builder without the run stopping.
CurveBuilt == pc \in {"sos_boot", "peak_boot", "done"}
\* The peak and the AUC have been computed.
Extracted == pc \in {"peak_boot", "done"}

\* The days of the curve.
CurveDays == {basin_data_daily[i].doy : i \in 1..Len(basin_data_daily)}

\* Position i of the curve lies in the sub-window [120,304].
InSubWindow(i) == /\ basin_data_daily[i].doy >= 120
                  /\ basin_data_daily[i].doy <= 304

\* The smoothed value at position i of the curve.
Smoothed(i) == basin_data_daily[i].chla_avg

\* min + 0.2 x (max - min) for the least value mn and the greatest value mx.
SeasonThreshold(mn, mx) == RatAdd(mn, RatMul(RatSub(mx, mn), 1, 5))

\* v is the least (greatest) smoothed value of the sub-window.
IsLeast(v) ==
    /\ \E j \in 1..Len(basin_data_daily) : InSubWindow(j) /\ Smoothed(j) = v
    /\ \A j \in 1..Len(basin_data_daily) : InSubWindow(j) => RatLe(v, Smoothed(j))
IsGreatest(v) ==
    /\ \E j \in 1..Len(basin_data_daily) : InSubWindow(j) /\ Smoothed(j) = v
    /\ \A j \in 1..Len(basin_data_daily) : InSubWindow(j) => RatLe(Smoothed(j), v)

\* C1: for every group the builder processes, the days of the seasonal
\* curve are exactly the integers 150..289: day 150 is in the curve and day
\* 290 is not.
C1_CurveDomain ==
    CurveBuilt => CurveDays = 150..289

\* C2: for every group with at least one observation, building the curve
\* never stops the run, and the curve holds a smoothed value for every day
\* from its first to its last day, without a gap.
C2_BuildNeverAborts ==
    Len(group_obs) > 0 =>
        /\ pc # "aborted"
        /\ pc # "start" =>
              /\ Len(basin_data_daily) > 0
              /\ \A i \in 1..(Len(basin_data_daily) - 1) :
                    basin_data_daily[i + 1].doy = basin_data_daily[i].doy + 1
              /\ \A i \in 1..Len(basin_data_daily) : Smoothed(i).den > 0

\* C3: peak_doy is a day of the curve whose smoothed value is the maximum
\* over the whole curve, the smallest such day when several days share the
\* maximum, and peak_value is the curve value at peak_doy.
C3_PeakIsFirstMaximum ==
    Extracted =>
        LET at == {i \in 1..Len(basin_data_daily) :
                     basin_data_daily[i].doy = peak_doy}
        IN /\ at # {}
           /\ \A i \in at :
                 /\ peak_value = Smoothed(i)
                 /\ \A j \in 1..Len(basin_data_daily) :
                       /\ RatLe(Smoothed(j), Smoothed(i))
                       /\ RatEq(Smoothed(j), Smoothed(i)) =>
                             basin_data_daily[j].doy >= peak_doy

\* Several days share the maximum and the peak is not the first day of the
\* curve.
C3_Witness ==
    /\ pc = "done"
    /\ peak_doy > basin_data_daily[1].doy
    /\ \E j \in 1..Len(basin_data_daily) :
          /\ basin_data_daily[j].doy > peak_doy
          /\ RatEq(Smoothed(j), peak_value)

\* C4: with min and max over the curve days inside [120,304] and
\* threshold = min + 0.2 x (max - min), SOS is the smallest day of that
\* sub-window whose value is strictly greater than threshold; a day whose
\* value equals threshold is never selected, and SOS is absent when no day
\* exceeds threshold.
C4_SosIsFirstStrictCrossing ==
    CurveBuilt =>
        LET xs == ChlaAvg(MayOct(basin_data_daily))
            mn == SeriesMin(xs)
            mx == SeriesMax(xs)
            t == SeasonThreshold(mn, mx)
            above == {i \in 1..Len(basin_data_daily) :
                        InSubWindow(i) /\ RatLt(t, Smoothed(i))}
        IN /\ IsLeast(mn)
           /\ IsGreatest(mx)
           /\ above = {} <=> sos = None
           /\ above # {} =>
                 /\ \E i \in above : basin_data_daily[i].doy = sos
                 /\ \A i \in above : basin_data_daily[i].doy >= sos
           /\ \A i \in 1..Len(basin_data_daily) :
                 InSubWindow(i) /\ RatEq(Smoothed(i), t) =>
                    basin_data_daily[i].doy # sos

\* A day before SOS holds exactly the threshold value.
C4_Witness ==
    /\ pc = "done"
    /\ sos # None
    /\ LET xs == ChlaAvg(MayOct(basin_data_daily))
           t == SeasonThreshold(SeriesMin(xs), SeriesMax(xs))
       IN \E i \in 1..Len(basin_data_daily) :
             /\ InSubWindow(i)
             /\ RatEq(Smoothed(i), t)
             /\ basin_data_daily[i].doy < sos

\* Some day of the sub-window holds a value strictly above the season-start
\* threshold.
SomeDayAboveThreshold ==
    LET xs == ChlaAvg(MayOct(basin_data_daily))
        t == SeasonThreshold(SeriesMin(xs), SeriesMax(xs))
    IN \E i \in 1..Len(basin_data_daily) :
          InSubWindow(i) /\ RatLt(t, Smoothed(i))

\* The metrics row of the group.
Row == results[Len(results)]

\* C5 as stated: in every metrics row, each of start_of_season_doy,
\* start_of_season_uncertainty and area_under_curve is absent only if no
\* day of the sub-window has a value strictly above the threshold.
C5_AbsentOnlyWithoutCrossing ==
    pc = "done" =>
        ((Row.sos = None \/ Row.sos_std = NoneRat \/ Row.auc = NoneArea) =>
            ~SomeDayAboveThreshold)

\* C5 as amended: SOS and AUC are absent only if no day of the sub-window
\* has a value strictly above the threshold, and a defined SOS comes with a
\* defined AUC; the SOS uncertainty is absent only if no bootstrap iteration
\* produced a SOS, and it is absent whenever SOS is absent.
C5_AbsentFields ==
    pc = "done" =>
        /\ (Row.sos = None \/ Row.auc = NoneArea) => ~SomeDayAboveThreshold
        /\ Row.sos # None => Row.auc # NoneArea
        /\ Row.sos_std = NoneRat => Len(bootstrap_sos) = 0
        /\ Row.sos = None => Row.sos_std = NoneRat

\* A group whose SOS and AUC are defined and whose SOS uncertainty is
\* absent: no iteration of the bootstrap found a candidate.
C5_Witness ==
    /\ pc = "done"
    /\ Row.sos # None
    /\ Row.auc # NoneArea
    /\ Row.sos_std = NoneRat
    /\ boot_k = num_bootstrap_samples

\* The AUC has just been computed.
JustExtracted == pc = "peak_boot" /\ Len(bootstrap_samples) = 0

\* Twice the sum over the consecutive curve days d, d+1 from day s to the
\* last day not after 304 of (v_d + v_{d+1}) / 2, by denominator.
DayTrapezoid(s) ==
    LET n == Len(basin_data_daily)
        first == CHOOSE i \in 1..n : basin_data_daily[i].doy = s
        last == CHOOSE i \in 1..n :
                   /\ basin_data_daily[i].doy <= 304
                   /\ i < n => basin_data_daily[i + 1].doy > 304
    IN [c \in 1..window_size |->
          SumInts([i \in first..(last - 1) |->
                      NumAt(Smoothed(i), c) + NumAt(Smoothed(i + 1), c)],
                  first, last - 1)]

\* C6: AUC is present exactly when SOS is present, and then it is the
\* trapezoidal-rule integral of the smoothed curve over the curve days d
\* with SOS <= d <= 304: the sum over consecutive days of
\* (v_d + v_{d+1}) / 2.  The metrics row holds that value.
C6_AucIsTrapezoid ==
    /\ Extracted => (auc = NoneArea <=> sos = None)
    /\ JustExtracted /\ sos # None =>
          /\ \A i \in 1..(Len(basin_data_daily) - 1) :
                basin_data_daily[i + 1].doy = basin_data_daily[i].doy + 1
          /\ auc = DayTrapezoid(sos)
    /\ pc = "done" => Row.auc = auc /\ Row.sos = sos

\* The season starts after the first day of the curve, so the integral
\* covers a part of the curve only.
C6_Witness ==
    /\ JustExtracted
    /\ sos # None
    /\ sos > basin_data_daily[1].doy
    /\ auc # NoneArea
    /\ \E c \in 1..window_size : auc[c] > 0

\* Every day of the curve holds the same smoothed value.
ConstantCurve ==
    \A i \in 1..Len(basin_data_daily) : RatEq(Smoothed(i), Smoothed(1))

\* C7 as stated: for a curve constant at v over its d days, the
\* area-under-curve of the extractor is v x d.
C7_ConstantCurveAuc ==
    Extracted /\ ConstantCurve =>
        /\ auc # NoneArea
        /\ SumInts([c \in 1..window_size |-> auc[c] \div c], 1, window_size)
              = 2 * (Smoothed(1).num \div Smoothed(1).den) * Len(basin_data_daily)

\* C7 as amended: for a curve constant at v the amplitude is 0, no day is
\* strictly above the threshold, and both SOS and the area-under-curve are
\* absent.
C7_ConstantCurveNoAuc ==
    Extracted /\ ConstantCurve =>
        /\ RatEq(amplitude, Rat(0, 1))
        /\ sos = None
        /\ auc = NoneArea
        /\ pc = "done" => Row.auc = NoneArea

\* A curve constant at a positive value, with its metrics row.
C7_Witness ==
    /\ pc = "done"
    /\ ConstantCurve
    /\ Smoothed(1).num > 0

\* The days of the curve within 20 positions of the peak.
NearPeak == {basin_data_daily[i].doy :
               i \in {j \in 1..Len(basin_data_daily) :
                        /\ j - (peak_index + 1) <= 20
                        /\ (peak_index + 1) - j <= 20}}

\* The smoothed value of day d of the curve.
ValueOfDay(d) == RowOfDay(basin_data_daily, d).chla_avg

\* C8: in every peak-bootstrap iteration the subsample is floor(n/2)
\* distinct days of the n curve days within 20 positions of the peak, and
\* the day recorded is the day with the greatest smoothed value among the
\* subsampled days, hence one of them.
C8_BootPeakAmongSubsample ==
    pc = "done" =>
        \A k \in 1..Len(bootstrap_median_dates) :
            /\ bootstrap_samples[k] \subseteq NearPeak
            /\ Cardinality(bootstrap_samples[k]) = Cardinality(NearPeak) \div 2
            /\ bootstrap_median_dates[k] \in bootstrap_samples[k]
            /\ \A d \in bootstrap_samples[k] :
                  RatLe(ValueOfDay(d), ValueOfDay(bootstrap_median_dates[k]))

\* C9: in every SOS-bootstrap iteration the rows are drawn from the
\* sub-window, as many as it has, sorted by day and re-smoothed, and the
\* SOS of the iteration is the first resampled day whose re-smoothed value
\* strictly exceeds min + 0.2 x (max - min) of the re-smoothed values.
C9_BootSosFromResmoothed ==
    [][boot_k' = boot_k + 1 =>
          \A may \in {MayOct(basin_data_daily)} :
          \A smooth \in {RollingMean(ChlaAvg(sample'))} :
          \A t \in {SeasonThreshold(SeriesMin(smooth), SeriesMax(smooth))} :
          \A above \in {{i \in 1..Len(smooth) : RatLt(t, smooth[i])}} :
             /\ Len(sample') = Len(may)
             /\ \A i \in 1..Len(sample') :
                   /\ \E j \in 1..Len(may) : sample'[i] = may[j]
                   /\ i > 1 => sample'[i - 1].doy <= sample'[i].doy
             /\ bootstrap_sos' =
                   IF above = {} THEN bootstrap_sos
                   ELSE Append(bootstrap_sos, sample'[SetMin(above)].doy)
      ]_vars

\* The resample smp holds a row above its threshold.
HasCandidate(smp) ==
    \E t \in {Threshold(RollingMean(ChlaAvg(smp)))} :
       \E i \in 1..Len(smp) : RatLt(t, smp[i].chla_avg)

\* C10: the SOS uncertainty is computed over exactly the iterations that
\* produced a SOS: an iteration with a threshold crossing contributes its
\* day, an iteration without one contributes nothing (not a zero), and the
\* uncertainty is absent if and only if no iteration produced a SOS.
C10_OnlyDefinedSosCollected ==
    /\ [](/\ Len(bootstrap_sos) <= boot_k
          /\ \A k \in 1..Len(bootstrap_sos) : bootstrap_sos[k] \in CurveDays
          /\ Extracted =>
                /\ sos_std = NoneRat <=> Len(bootstrap_sos) = 0
                /\ sos_std # NoneRat => sos_std = StdSquared(bootstrap_sos))
    /\ [][boot_k' = boot_k + 1 =>
             \A found \in {HasCandidate(sample')} :
                /\ found => Len(bootstrap_sos') = Len(bootstrap_sos) + 1
                /\ ~found => bootstrap_sos' = bootstrap_sos
                /\ SubSeq(bootstrap_sos', 1, Len(bootstrap_sos)) = bootstrap_sos
       ]_vars

\* One iteration found a SOS and another found none, and the uncertainty
\* stands on the one value collected.
C10_Witness ==
    /\ pc = "done"
    /\ boot_k > 1
    /\ Len(bootstrap_sos) > 0
    /\ Len(bootstrap_sos) < boot_k
    /\ sos_std # NoneRat

(***************************************************************************)
(* The statistical analysis that follows the loop (lines 139-337).         *)
(*                                                                         *)
(* A row of the metrics table holds decade, basin, peak_doy, std2 and sos; *)
(* the columns the analysis never reads (peak_value, sos_std, amplitude,   *)
(* auc) are stood for by sos.  In a row std2 is a number of tenths of a    *)
(* day.  The p-values are held by the comparisons the script makes of     *)
(* them, the p-value of the weighted fit (a t distribution with n - 2      *)
(* degrees of freedom) is not held.                                        *)
(***************************************************************************)
\* Largest number of rows of an enumerated metrics table.
MaxRows == 4
\* The stations that hold rows in the enumerated tables, in the order of
\* the list of line 57.
TableBasins == <<"Tihany", "Zanka">>
\* The rows enumerated for a decade: the peak day of an advancing series
\* (240, 235, 230, 225 in decades 1..4) with a peak uncertainty of 2.0 days
\* or of 0 (all bootstrap peak days equal, as on a constant curve, which
\* has no start of season), or the peak day 279.
TablePeaks == <<240, 235, 230, 225>>
RowKinds(decade) ==
    {[peak_doy |-> TablePeaks[decade], std2 |-> 20, sos |-> 202],
     [peak_doy |-> TablePeaks[decade], std2 |-> 0, sos |-> None],
     [peak_doy |-> 279, std2 |-> 20, sos |-> 202]}
AllRowKinds == UNION {RowKinds(d) : d \in 1..Len(TablePeaks)}

\* years = [1989, 1999, 2009, 2019]
years == <<1989, 1999, 2009, 2019>>
\* The outlier of lines 157-160: Zanka, decade 4, peak day 279, replaced by
\* 246 with uncertainty 3.2.
OutlierBasin == "Zanka"
OutlierDecade == 4
OutlierPeak == 279
OverridePeak == 246
OverrideStd2 == 32
\* len(all_years) >= 4
MinMeasurements == 4
\* The squares of the normal quantiles of p = 0.05 and p = 0.10 (two-sided),
\* in millionths.
ChiSq05 == 3841459
ChiSq10 == 2705543
ChiSqDen == 1000000

\* a/b < c/d for a, c >= 0 and b, d > 0, by continued fractions.
RECURSIVE FracLt(_, _, _, _)
FracLt(a, b, c, d) ==
    LET qa == a \div b
        qc == c \div d
        ra == a % b
        rc == c % d
    IN IF qa # qc THEN qa < qc
       ELSE IF rc = 0 THEN FALSE
       ELSE IF ra = 0 THEN TRUE
       ELSE FracLt(d, rc, b, ra)

\* The rational with a positive denominator.
RatSign(a) == IF a.den < 0 THEN Rat(0 - a.num, 0 - a.den) ELSE a

\* The mask without the comparison of the peak day, and the mask without
\* the comparison of the station.
OutlierMaskAnyPeak(row) ==
    /\ row.basin = OutlierBasin
    /\ row.decade = OutlierDecade
OutlierMaskAnyBasin(row) ==
    /\ row.decade = OutlierDecade
    /\ row.peak_doy = OutlierPeak
\* results_df_filtered.loc[outlier_mask, ...] = ...
OutlierMask(row) ==
    /\ row.basin = OutlierBasin
    /\ row.decade = OutlierDecade
    /\ row.peak_doy = OutlierPeak
Corrected(frame) ==
    [i \in 1..Len(frame) |->
        IF OutlierMask(frame[i])
        THEN [frame[i] EXCEPT !.peak_doy = OverridePeak,
                              !.std2 = OverrideStd2]
        ELSE frame[i]]

\* sorted(results_df_filtered['decade'].unique())
Decades(frame) == Sorted({frame[i].decade : i \in 1..Len(frame)})

\* The mean peak day of each decade that holds a row, in decade order.
DecadeMean(frame, decade) ==
    LET at == {i \in 1..Len(frame) : frame[i].decade = decade}
        doys == [i \in 1..Len(frame) |->
                    IF i \in at THEN frame[i].peak_doy ELSE 0]
    IN Rat(SumList(doys, Len(frame)), Cardinality(at))
MeanDoyValues(frame) ==
    LET ds == Decades(frame)
    IN [k \in 1..Len(ds) |-> DecadeMean(frame, ds[k])]

\* stats.linregress(x, y) of integer x and rational y on four points: the
\* least-squares slope, r squared, and p_value_reg < 0.05.  With two
\* degrees of freedom the two-sided p-value of the slope is 1 - |r|, so it
\* is below 0.05 exactly when r squared is above 0.95 squared = 361/400.
Linregress(xs, ys) ==
    LET n == Len(xs)
        l == LcmOf({ys[i].den : i \in 1..n})
        Y == [i \in 1..n |-> ys[i].num * (l \div ys[i].den)]
        sx == SumList(xs, n)
        sy == SumList(Y, n)
        sxx == n * SumList([i \in 1..n |-> xs[i] * xs[i]], n) - sx * sx
        sxy == n * SumList([i \in 1..n |-> xs[i] * Y[i]], n) - sx * sy
        syy == n * SumList([i \in 1..n |-> Y[i] * Y[i]], n) - sy * sy
    IN [slope |-> Rat(sxy, sxx * l),
        r_squared |-> IF syy = 0 THEN Rat(0, 1) ELSE Rat(sxy * sxy, sxx * syy),
        significant |-> syy # 0 /\ FracLt(361, 400, sxy * sxy, sxx * syy)]

\* The pairs of neighbouring positions of a list of n values.
PairsAdjacent(n) == {q \in (1..n) \X (1..n) : q[1] + 1 = q[2]}

\* The pairs i < j of positions of a list of n values.
Pairs(n) == {q \in (1..n) \X (1..n) : q[1] < q[2]}

\* The k-th smallest of a list of rationals, and np.median of the list (nan
\* for an empty list, held as the absent rational).
KthSmallest(vals, k) ==
    LET i == CHOOSE i \in 1..Len(vals) :
                 /\ Cardinality({j \in 1..Len(vals) : RatLt(vals[j], vals[i])}) < k
                 /\ Cardinality({j \in 1..Len(vals) : RatLe(vals[j], vals[i])}) >= k
    IN vals[i]
\* The smallest value of the list in place of its median.
MedianLowest(vals) ==
    IF Len(vals) = 0 THEN NoneRat ELSE KthSmallest(vals, 1)
Median(vals) ==
    LET n == Len(vals)
    IN IF n = 0 THEN NoneRat
       ELSE IF n % 2 = 1 THEN KthSmallest(vals, (n + 1) \div 2)
       ELSE RatMul(RatAdd(KthSmallest(vals, n \div 2),
                          KthSmallest(vals, (n \div 2) + 1)), 1, 2)

\* The list slopes of sens_slope: (y[j] - y[i]) / (x[j] - x[i]) for i < j
\* with x[j] != x[i].
PairSlopes(x, y) ==
    LET n == Len(x)
        kept == {q \in Pairs(n) : x[q[2]] # x[q[1]]}
        order == Sorted({q[1] * (n + 1) + q[2] : q \in kept})
    IN [k \in 1..Len(order) |->
          LET i == order[k] \div (n + 1)
              j == order[k] % (n + 1)
          IN RatSign(RatMul(RatSub(y[j], y[i]), 1, x[j] - x[i]))]

\* sens_slope(x, y), lines 299-311
sens_slope(x, y) == Median(PairSlopes(x, y))

\* The number of orderings of n values with exactly k inversions, and n!.
RECURSIVE Mahonian(_, _)
Mahonian(n, k) ==
    IF k < 0 THEN 0
    ELSE IF n <= 1 THEN (IF k = 0 THEN 1 ELSE 0)
    ELSE LET part == [j \in 1..n |-> Mahonian(n - 1, k - (j - 1))]
         IN SumList(part, n)
RECURSIVE Factorial(_)
Factorial(n) == IF n <= 1 THEN 1 ELSE n * Factorial(n - 1)

\* kendalltau(x, y) of a list x without ties and a list y of rationals:
\* concordant minus discordant pairs, and the comparisons p_mk < 0.05 and
\* p_mk < 0.10.  Without ties the p-value is the exact one; with ties it
\* is the normal approximation of s / sqrt(var), var = var18 / 18.
KendallTau(x, y) ==
    LET n == Len(x)
        con == Cardinality({q \in Pairs(n) :
                   (x[q[1]] < x[q[2]]) = RatLt(y[q[1]], y[q[2]])
                   /\ ~RatEq(y[q[1]], y[q[2]])})
        tied == Cardinality({q \in Pairs(n) : RatEq(y[q[1]], y[q[2]])})
        tot == Cardinality(Pairs(n))
        dis == tot - tied - con
        s == con - dis
        first == {i \in 1..n : \A j \in 1..(i - 1) : ~RatEq(y[j], y[i])}
        T(i) == Cardinality({j \in 1..n : RatEq(y[j], y[i])})
        y1 == SumList([i \in 1..n |->
                  IF i \in first THEN T(i) * (T(i) - 1) * (2 * T(i) + 5)
                  ELSE 0], n)
        var18 == n * (n - 1) * (2 * n + 5) - y1
        c == Min2(dis, tot - dis)
        exact == IF 4 * c = n * (n - 1) THEN Rat(1, 1)
                 ELSE Rat(2 * SumList([k \in 1..(c + 1) |-> Mahonian(n, k - 1)],
                                      c + 1), Factorial(n))
        Below(num, den, chi) ==
            IF tied = 0 THEN RatLt(exact, Rat(num, den))
            ELSE tied # tot /\ FracLt(chi, ChiSqDen, 18 * s * s, var18)
    IN [s |-> s, tied |-> tied,
        sig_5pct |-> Below(1, 20, ChiSq05),
        sig_10pct |-> Below(1, 10, ChiSq10)]

\* curve_fit(linear_func, x, y, sigma=1/sqrt(w), absolute_sigma=True): the
\* slope of the weighted least-squares line, with years counted from the
\* first of the list years.  The weights w = 100 / std2^2 (std2 in tenths)
\* enter by their ratios.
CurveFitSlope(xs, ys, stds) ==
    LET n == Len(xs)
        l == LcmOf({stds[i] : i \in 1..n})
        W == [i \in 1..n |-> (l \div stds[i]) * (l \div stds[i])]
        X == [i \in 1..n |-> xs[i] - years[1]]
        sw == SumList(W, n)
        swx == SumList([i \in 1..n |-> W[i] * X[i]], n)
        swy == SumList([i \in 1..n |-> W[i] * ys[i]], n)
        swxx == SumList([i \in 1..n |-> W[i] * X[i] * X[i]], n)
        swxy == SumList([i \in 1..n |-> W[i] * X[i] * ys[i]], n)
        d == sw * swxx - swx * swx
    IN IF d = 0 THEN NoneRat ELSE Rat(sw * swxy - swx * swy, d)

\* The variables of the loop body, and their values outside of it.
body_vars == <<group_obs, curve_vars, sos_boot_vars, metric_vars,
               bootstrap_samples, bootstrap_median_dates, std2>>
BodyIdle ==
    /\ group_obs = <<>>
    /\ basin_data_daily = <<>>
    /\ sos = None
    /\ amplitude = NoneRat
    /\ sample = <<>>
    /\ boot_k = 0
    /\ bootstrap_sos = <<>>
    /\ sos_std = NoneRat
    /\ auc = NoneArea
    /\ peak_index = None
    /\ peak_doy = None
    /\ peak_value = NoneRat
    /\ bootstrap_samples = <<>>
    /\ bootstrap_median_dates = <<>>
    /\ std2 = NoneRat

\* The metrics tables enumerated: at most one row per decade and station,
\* in the order of the loop (decade, then station).
Cells == 1..(Len(years) * Len(TableBasins))
CellDecade(c) == ((c - 1) \div Len(TableBasins)) + 1
CellBasin(c) == TableBasins[((c - 1) % Len(TableBasins)) + 1]
TableOf(C, f) ==
    LET order == Sorted(C)
    IN [k \in 1..Len(order) |->
          [decade |-> CellDecade(order[k]), basin |-> CellBasin(order[k]),
           peak_doy |-> f[order[k]].peak_doy, std2 |-> f[order[k]].std2,
           sos |-> f[order[k]].sos]]
Tables ==
    UNION {{TableOf(C, f) :
              f \in {g \in [C -> AllRowKinds] :
                       \A c \in C : g[c] \in RowKinds(CellDecade(c))}} :
             C \in {D \in SUBSET Cells : Cardinality(D) <= MaxRows}}

TrendInit ==
    /\ pc = "analysis"
    /\ results_df \in Tables
    /\ results_df_filtered = <<>>
    /\ mean_doy_values = <<>>
    /\ all_years = <<>>
    /\ all_doys = <<>>
    /\ all_weights = <<>>
    /\ stdout = <<>>
    /\ results = <<>>
    /\ BodyIdle /\ LoopIdle /\ SensIdle /\ ToolsIdle

\* Lines 144-146: the banner of the analysis.
Banner == [header |-> "STATISTICAL ANALYSIS"]

\* Line 157 on a table without a row: pd.DataFrame([]) has no column, and
\* results_df_filtered['basin'] raises KeyError, which nothing catches.
PrepareAborts ==
    /\ pc = "analysis"
    /\ Len(results_df) = 0
    /\ stdout' = Append(stdout, Banner)
    /\ pc' = "aborted"
    /\ UNCHANGED <<results_df, results_df_filtered, mean_doy_values,
                   all_years, all_doys, all_weights>>
    /\ UNCHANGED <<results, body_vars, loop_vars, sens_vars, tool_vars>>

\* Lines 144-166: the banner, the copy of the table and the correction of
\* the outlier.
Prepare ==
    /\ pc = "analysis"
    /\ Len(results_df) > 0
    /\ stdout' = Append(stdout, Banner)
    /\ results_df_filtered' = Corrected(results_df)
    /\ pc' = "method1"
    /\ UNCHANGED <<results_df, mean_doy_values, all_years, all_doys,
                   all_weights>>
    /\ UNCHANGED <<results, body_vars, loop_vars, sens_vars, tool_vars>>

\* What lines 186-197 and 234-243 print of a regression of the decade
\* means.
RegressionLines(header, means) ==
    LET fit == Linregress(years, means)
    IN [header |-> header, slope |-> fit.slope, r_squared |-> fit.r_squared,
        significant |-> fit.significant,
        direction |-> IF ~fit.significant THEN "none"
                      ELSE IF fit.slope.num < 0 THEN "advancing"
                      ELSE "delaying"]

\* Lines 172-197: METHOD 1.
Method1 ==
    /\ pc = "method1"
    /\ LET means == MeanDoyValues(results_df_filtered)
       IN /\ mean_doy_values' = means
          /\ stdout' = IF Len(means) = Len(years)
                       THEN Append(stdout, RegressionLines("METHOD 1", means))
                       ELSE stdout
    /\ pc' = "weights"
    /\ UNCHANGED <<results_df, results_df_filtered, all_years, all_doys,
                   all_weights>>
    /\ UNCHANGED <<results, body_vars, loop_vars, sens_vars, tool_vars>>

\* The rows of the frame before the first row whose std2 is 0 (all of them
\* when there is none).
BeforeZero(frame) ==
    LET zero == {i \in 1..Len(frame) : frame[i].std2 = 0}
    IN IF zero = {} THEN frame ELSE SubSeq(frame, 1, SetMin(zero) - 1)
AllYears(frame) == [i \in 1..Len(frame) |-> years[frame[i].decade]]
AllDoys(frame) == [i \in 1..Len(frame) |-> frame[i].peak_doy]
AllWeights(frame) ==
    [i \in 1..Len(frame) |-> Rat(100, frame[i].std2 * frame[i].std2)]

\* Lines 201-217 with a row whose std2 is 0: the values of a row of
\* iterrows() are Python floats, 1.0 / (std2**2) raises ZeroDivisionError,
\* which nothing catches.
WeightsRaise ==
    /\ pc = "weights"
    /\ \E i \in 1..Len(results_df_filtered) : results_df_filtered[i].std2 = 0
    /\ LET frame == BeforeZero(results_df_filtered)
       IN /\ all_years' = AllYears(frame)
          /\ all_doys' = AllDoys(frame)
          /\ all_weights' = AllWeights(frame)
    /\ pc' = "aborted"
    /\ UNCHANGED <<results_df, results_df_filtered, mean_doy_values, stdout>>
    /\ UNCHANGED <<results, body_vars, loop_vars, sens_vars, tool_vars>>

\* Lines 201-217: one measurement per row with a peak day and a std2.
Method2Weights ==
    /\ pc = "weights"
    /\ \A i \in 1..Len(results_df_filtered) : results_df_filtered[i].std2 # 0
    /\ all_years' = AllYears(results_df_filtered)
    /\ all_doys' = AllDoys(results_df_filtered)
    /\ all_weights' = AllWeights(results_df_filtered)
    /\ pc' = "method2"
    /\ UNCHANGED <<results_df, results_df_filtered, mean_doy_values, stdout>>
    /\ UNCHANGED <<results, body_vars, loop_vars, sens_vars, tool_vars>>

\* What lines 247-288 print of the weighted regression.
WeightedLines(xs, ys, frame) ==
    LET slope == CurveFitSlope(xs, ys, [i \in 1..Len(frame) |-> frame[i].std2])
    IN [header |-> "METHOD 2", slope |-> slope, n |-> Len(xs),
        dof |-> Len(xs) - 2]

\* Lines 219-288: the regression of the decade means once more, without a
\* header, and METHOD 2.
Method2 ==
    /\ pc = "method2"
    /\ LET means == MeanDoyValues(results_df_filtered)
           compared == IF Len(means) = Len(years)
                       THEN Append(stdout, RegressionLines("", means))
                       ELSE stdout
       IN /\ mean_doy_values' = means
          /\ stdout' = IF Len(all_years) >= MinMeasurements
                       THEN Append(compared,
                                   WeightedLines(all_years, all_doys,
                                                 results_df_filtered))
                       ELSE compared
    /\ pc' = "method3"
    /\ UNCHANGED <<results_df, results_df_filtered, all_years, all_doys,
                   all_weights>>
    /\ UNCHANGED <<results, body_vars, loop_vars, sens_vars, tool_vars>>

\* What lines 294-335 print of the Mann-Kendall test and of Sen's slope.
MannKendallLines(means) ==
    LET mk == KendallTau(years, means)
    IN [header |-> "METHOD 3", s |-> mk.s, tied |-> mk.tied,
        sen_slope |-> sens_slope(years, means),
        sig_5pct |-> mk.sig_5pct, sig_10pct |-> mk.sig_10pct,
        result |-> IF mk.sig_5pct THEN "SIGNIFICANT at 5% level"
                   ELSE IF mk.sig_10pct THEN "SIGNIFICANT at 10% level"
                   ELSE "NO significant trend"]

\* Lines 293-335: METHOD 3.
Method3 ==
    /\ pc = "method3"
    /\ stdout' = IF Len(mean_doy_values) = Len(years)
                 THEN Append(stdout, MannKendallLines(mean_doy_values))
                 ELSE stdout
    /\ pc' = "plots"
    /\ UNCHANGED <<results_df, results_df_filtered, mean_doy_values,
                   all_years, all_doys, all_weights>>
    /\ UNCHANGED <<results, body_vars, loop_vars, sens_vars, tool_vars>>

TrendNext ==
    \/ PrepareAborts
    \/ Prepare
    \/ Method1
    \/ WeightsRaise
    \/ Method2Weights
    \/ Method2
    \/ Method3

TrendSpec == TrendInit /\ [][TrendNext]_vars

(***************************************************************************)
(* Properties of the statistical analysis.                                 *)
(***************************************************************************)
\* The analysis has reached the summary plots, or has stopped on an error.
AnalysisOver == pc \in {"plots", "aborted"}
MethodNames == {"METHOD 1", "METHOD 2", "METHOD 3"}
\* The output holds lines under the header of method m: its result, or a
\* line that says the method was not computed.
Reported(m) == \E k \in 1..Len(stdout) : stdout[k].header = m
\* The lines printed under the header of method m.
LinesOf(m) == stdout[CHOOSE k \in 1..Len(stdout) : stdout[k].header = m]

\* C11: for every metrics table, also one in which a decade has no row or
\* fewer than 4 rows hold an uncertainty, the output of the analysis holds
\* for each of the three methods its result or a "not computed" line: no
\* method is silently absent.
C11_EveryMethodReported ==
    pc = "plots" => \A m \in MethodNames : Reported(m)

\* C12: each method is evaluated and reported whenever its own inputs are
\* sufficient (four decade means for methods 1 and 3, four rows for method
\* 2), whether another method was skipped or failed while computing:
\* method 3 is reached whatever happens inside method 2.
C12_MethodsIndependent ==
    AnalysisOver =>
        LET frame == Corrected(results_df)
        IN /\ Len(MeanDoyValues(frame)) = 4 =>
                 Reported("METHOD 1") /\ Reported("METHOD 3")
           /\ Len(frame) >= 4 => Reported("METHOD 2")

\* C13: method 2 executes if and only if at least 4 rows of the corrected
\* table hold a peak day and a peak uncertainty; it uses one point per such
\* row, paired with the mid-year of the row's decade (1989, 1999, 2009,
\* 2019) and weighted by 1 / uncertainty^2, with n - 2 degrees of freedom.
C13_WeightedRegressionInputs ==
    AnalysisOver =>
        LET frame == Corrected(results_df)
            n == Len(frame)
        IN /\ Reported("METHOD 2") <=> n >= 4
           /\ Reported("METHOD 2") =>
                 /\ LinesOf("METHOD 2").n = n
                 /\ LinesOf("METHOD 2").dof = n - 2
                 /\ Len(all_years) = n /\ Len(all_doys) = n
                 /\ Len(all_weights) = n
                 /\ \A i \in 1..n :
                       /\ all_years[i] = 1979 + 10 * frame[i].decade
                       /\ all_doys[i] = frame[i].peak_doy
                       /\ RatEq(RatMul(all_weights[i],
                                       frame[i].std2 * frame[i].std2, 100),
                                Rat(1, 1))

\* The table of one station with the peak days 240, 235, 230, 225 in the
\* decades 1..4.
AdvancingSeries ==
    /\ Len(results_df) = 4
    /\ \A d \in 1..4 :
          /\ results_df[d].decade = d
          /\ results_df[d].basin = results_df[1].basin
          /\ results_df[d].peak_doy = 245 - 5 * d

\* C14: for the table of one station with the peak days 240, 235, 230, 225
\* in the decades 1..4, method 1 and method 3 both report the slope -0.5
\* days/year and both classify the trend as significant.
C14_AdvancingSeriesSignificant ==
    AnalysisOver /\ AdvancingSeries =>
        /\ Reported("METHOD 1")
        /\ RatEq(LinesOf("METHOD 1").slope, Rat(-1, 2))
        /\ LinesOf("METHOD 1").significant
        /\ Reported("METHOD 3")
        /\ RatEq(LinesOf("METHOD 3").sen_slope, Rat(-1, 2))
        /\ LinesOf("METHOD 3").result # "NO significant trend"

(***************************************************************************)
(* sens_slope (lines 299-311) called on lists of points.                   *)
(***************************************************************************)
MaxPoints == 3
\* The x and y values the points are drawn from; the analysis calls
\* sens_slope with x = years (line 313).
SensXs == {1, 2, 3}
SensYs == {10, 20, 1000}
\* The lists of at most n values of S.
ListsUpTo(S, n) == UNION {[1..k -> S] : k \in 0..n}
\* The integers of a list as rationals.
AsRats(ys) == [i \in 1..Len(ys) |-> Rat(ys[i], 1)]

SensInit ==
    /\ pc = "sens_call"
    /\ sens_x \in ListsUpTo(SensXs, MaxPoints) \cup {years}
    /\ sens_y \in [1..Len(sens_x) -> SensYs]
    /\ sens_out = NoneRat
    /\ results = <<>>
    /\ BodyIdle /\ LoopIdle /\ TrendIdle /\ ToolsIdle

\* sen_slope = sens_slope(x, y)
SensSlope ==
    /\ pc = "sens_call"
    /\ sens_out' = sens_slope(sens_x, AsRats(sens_y))
    /\ pc' = "sens_return"
    /\ UNCHANGED <<sens_x, sens_y>>
    /\ UNCHANGED <<results, body_vars, loop_vars, trend_vars, tool_vars>>

SensNext == SensSlope
SensSpec == SensInit /\ [][SensNext]_vars

\* sens_slope has returned for the points (1,10), (2,20), (3,1000).
OutlierPoints ==
    /\ pc = "sens_return"
    /\ sens_x = <<1, 2, 3>>
    /\ sens_y = <<10, 20, 1000>>
\* The slope of the least-squares line through the points.
OlsSlope == Linregress(sens_x, AsRats(sens_y)).slope
\* The distance of a rational from the integer n.
DistFrom(a, n) ==
    LET d == RatSub(a, Rat(n, 1))
    IN IF RatLt(d, Rat(0, 1)) THEN Rat(0 - d.num, d.den) ELSE d

\* C15 as stated: for the points (1,10), (2,20), (3,1000) sens_slope
\* returns a value close to 10, the slope of the two well-behaved points
\* (nearer to 10 than to 495, the slope of the pair that spans the
\* outlier), and closer to 10 than the least-squares slope.
C15_SenSlopeNearTen ==
    OutlierPoints =>
        /\ RatLt(DistFrom(sens_out, 10), DistFrom(sens_out, 495))
        /\ RatLt(DistFrom(sens_out, 10), DistFrom(OlsSlope, 10))

\* C15: for the points (1,10), (2,20), (3,1000) sens_slope returns 495,
\* the median of the three pairwise slopes 10, 495 and 980, which is also
\* the least-squares slope of the three points; for any list of points the
\* result is the median of the slopes of the pairs with different x, and
\* absent (nan) when no such pair exists.
C15_SenSlopeIsMedian ==
    pc = "sens_return" =>
        /\ OutlierPoints =>
              /\ RatEq(sens_out, Rat(495, 1))
              /\ RatEq(sens_out, OlsSlope)
        /\ LET slopes == PairSlopes(sens_x, AsRats(sens_y))
               n == Len(slopes)
               le == Cardinality({k \in 1..n : RatLe(slopes[k], sens_out)})
               ge == Cardinality({k \in 1..n : RatLe(sens_out, slopes[k])})
           IN IF n = 0 THEN sens_out = NoneRat
              ELSE 2 * le >= n /\ 2 * ge >= n
C15_Witness ==
    /\ OutlierPoints
    /\ RatEq(sens_out, Rat(495, 1))

(***************************************************************************)
(* Properties of the outlier correction (lines 156-160).                   *)
(***************************************************************************)
\* Lines 157-160 have run on a table that holds rows.
CorrectionDone ==
    /\ Len(results_df) > 0
    /\ pc \in {"method1", "weights", "method2", "method3", "plots", "aborted"}
\* The rows (one per station and decade) at which the corrected table
\* differs from the uncorrected one.
DiffCells ==
    {k \in 1..Len(results_df) : results_df_filtered[k] # results_df[k]}
\* The row of station Zanka in decade 4.
IsOutlierCell(row) == row.basin = OutlierBasin /\ row.decade = OutlierDecade

\* C16 as stated: in every run the corrected table differs from the
\* uncorrected table at exactly one (station, decade) cell, the cell of
\* station Zanka in decade 4.
C16_ExactlyOneCellDiffers ==
    CorrectionDone =>
        /\ Cardinality(DiffCells) = 1
        /\ \A k \in DiffCells : IsOutlierCell(results_df[k])

\* C16: the corrected table has the rows of the uncorrected one and
\* differs from it at no cell other than Zanka / decade 4; it differs at
\* that cell exactly when the table holds the row and its extracted peak
\* day is 279, and otherwise the two tables are equal.
C16_AtMostTheOutlierCellDiffers ==
    CorrectionDone =>
        /\ Len(results_df_filtered) = Len(results_df)
        /\ \A k \in 1..Len(results_df) :
              k \in DiffCells <=>
                  /\ IsOutlierCell(results_df[k])
                  /\ results_df[k].peak_doy = OutlierPeak
        /\ Cardinality(DiffCells) <= 1
C16_Witness ==
    /\ CorrectionDone
    /\ Cardinality(DiffCells) = 1
    /\ \E k \in 1..Len(results_df) :
          /\ k \notin DiffCells
          /\ IsOutlierCell(results_df[k]) \/ results_df[k].peak_doy = OutlierPeak

\* C17: the correction changes nothing but the peak day (to 246) and the
\* peak uncertainty (to 3.2) of the Zanka / decade 4 row of the corrected
\* copy: every other row and every other field of the corrected table
\* equals the uncorrected one, and no step of the analysis changes the
\* uncorrected table, which keeps the extracted value.
C17_CorrectionFrame ==
    /\ [](CorrectionDone =>
            /\ Len(results_df_filtered) = Len(results_df)
            /\ \A k \in 1..Len(results_df) :
                  LET old == results_df[k]
                      new == results_df_filtered[k]
                  IN /\ new.basin = old.basin
                     /\ new.decade = old.decade
                     /\ new.sos = old.sos
                     /\ new # old =>
                           /\ IsOutlierCell(old)
                           /\ new.peak_doy = OverridePeak
                           /\ new.std2 = OverrideStd2)
    /\ [][results_df' = results_df]_vars
C17_Witness ==
    /\ CorrectionDone
    /\ \E k \in DiffCells :
          /\ results_df[k].peak_doy = OutlierPeak
          /\ results_df_filtered[k].peak_doy = OverridePeak
    /\ \E k \in 1..Len(results_df) :
          /\ ~IsOutlierCell(results_df[k])
          /\ results_df[k].peak_doy = OutlierPeak
          /\ results_df_filtered[k] = results_df[k]

\* C18: whenever the override has replaced an extracted value, the output
\* holds a line that records the override (the cell and the replacement),
\* printed after the extraction and before the lines of any trend method.
C18_OverrideLogged ==
    CorrectionDone /\ DiffCells # {} =>
        \E k \in 1..Len(stdout) :
            /\ stdout[k].header = "OUTLIER CORRECTION"
            /\ \A j \in 1..(k - 1) : stdout[j].header \notin MethodNames

(***************************************************************************)
(* The loop over the decades and the stations (lines 46-136).              *)
(***************************************************************************)
\* Largest number of rows of the observation file.
MaxDf == 2
\* for basin in [...]
Basins == <<"Bfuzfo", "Tihany", "Zanka", "Szigliget", "Keszthely">>
\* len(conditions)
NumConditions == 4

\* The conditions with every comparison inclusive.
ConditionInclusive(i, year) ==
    CASE i = 0 -> year <= 1995
      [] i = 1 -> year >= 1994 /\ year <= 2005
      [] i = 2 -> year >= 2004 /\ year <= 2015
      [] i = 3 -> year >= 2014 /\ year <= 2024

\* conditions[i] for a row of the given year (i counted from 0).
Condition(i, year) ==
    CASE i = 0 -> year < 1995
      [] i = 1 -> year > 1994 /\ year < 2005
      [] i = 2 -> year > 2004 /\ year < 2015
      [] i = 3 -> year > 2014 /\ year < 2024
\* The rows of the observation files enumerated: at one station the years
\* on both sides of every decade boundary, at a second station a year of
\* the first and of the last decade, all on a day of the season, and one
\* row on day 365, which the reindexed range does not hold.
DfYears == {1994, 1995, 2004, 2005, 2014, 2015, 2023, 2024}
DfKinds ==
    [year : DfYears, Basin : {"Tihany"}, doy : {180}, chla : {1}]
    \cup [year : {1994, 2015}, Basin : {"Zanka"}, doy : {180}, chla : {1}]
    \cup [year : {2004}, Basin : {"Tihany"}, doy : {365}, chla : {1}]
DfRank(o) ==
    (o.year * 2 + (IF o.Basin = "Zanka" THEN 1 ELSE 0)) * 2
    + (IF o.doy = 365 THEN 1 ELSE 0)
Frames == UNION {{s \in [1..n -> DfKinds] :
                    \A k \in 1..(n - 1) : DfRank(s[k]) <= DfRank(s[k + 1])}
                 : n \in 0..MaxDf}

\* df_filtered = df[condition]; basin_data = df_filtered[df_filtered['Basin'] == basin]
InGroup(o, i, basin) == Condition(i, o.year) /\ o.Basin = basin
BasinData(frame, i, basin) ==
    LET Test(o) == InGroup(o, i, basin)
        picked == SelectSeq(frame, Test)
    IN [k \in 1..Len(picked) |->
          [doy |-> picked[k].doy, chla |-> picked[k].chla]]

\* bootstrap_sos after the iterations that drew Ds[1], ..., Ds[k].
RECURSIVE CollectAll(_, _, _)
CollectAll(bs, Ds, k) ==
    IF k = 0 THEN <<>> ELSE Collect(CollectAll(bs, Ds, k - 1), bs[Ds[k]])

\* The rows that lines 61-136 can append for one group, one for every
\* course of the two bootstraps.
BodyRows(decade, basin, obs) ==
    UNION {UNION {UNION {UNION {UNION {
        {[decade |-> decade, basin |-> basin,
          peak_doy |-> rows[idx + 1].doy,
          peak_value |-> rows[idx + 1].chla_avg,
          std2 |-> Std2([k \in 1..num_bootstrap_samples |-> bp[Ps[k]]]),
          sos |-> s,
          sos_std |-> SosStd(CollectAll(bs, Ds, num_bootstrap_samples)),
          amplitude |-> Amplitude(ChlaAvg(MayOct(rows))),
          auc |-> ComputeAuc(rows, s)] :
            Ds \in [1..num_bootstrap_samples -> SosDraws],
            Ps \in [1..num_bootstrap_samples -> DOMAIN bp]} :
        bp \in {[smp \in PeakDraws(DatesWindow(rows, idx)) |->
                    BootPeak(DataWindow(rows, idx), smp)]}} :
        bs \in {[D \in SosDraws |-> BootSos(Resample(MayOct(rows), D))]}} :
        idx \in {PeakIndex(rows)}} :
        s \in {ComputeSos(rows)}} :
        rows \in {BuildCurve(obs)}}

LoopInit ==
    /\ pc = "loop"
    /\ df \in Frames
    /\ cond_i = 0
    /\ basin_k = 0
    /\ results = <<>>
    /\ BodyIdle /\ TrendIdle /\ SensIdle /\ ToolsIdle

\* The group the loop handles next.
Basin == Basins[basin_k + 1]
\* The loop over the stations left at the first group (break).
AdvanceBreak ==
    /\ basin_k' = 0
    /\ cond_i' = cond_i + 1
    /\ pc' = IF cond_i + 1 < NumConditions THEN "loop" ELSE "loop_done"
\* The loop moves to the next station, to the next decade, or ends.
Advance ==
    IF basin_k + 1 < Len(Basins)
    THEN basin_k' = basin_k + 1 /\ UNCHANGED <<pc, cond_i>>
    ELSE /\ basin_k' = 0
         /\ cond_i' = cond_i + 1
         /\ pc' = IF cond_i + 1 < NumConditions THEN "loop" ELSE "loop_done"

\* Lines 58-60: if len(basin_data) == 0: continue
Continue ==
    /\ pc = "loop"
    /\ group_obs' = BasinData(df, cond_i, Basin)
    /\ Len(group_obs') = 0
    /\ Advance
    /\ UNCHANGED <<df, trend_vars, sens_vars, tool_vars>>
    /\ UNCHANGED <<curve_vars, sos_boot_vars, metric_vars, bootstrap_samples,
                   peak_boot_vars>>

\* Line 65 for a group without a row on a day of 1..364: ValueError.
GroupAborts ==
    /\ pc = "loop"
    /\ group_obs' = BasinData(df, cond_i, Basin)
    /\ Len(group_obs') > 0
    /\ TempDays(GroupMean(group_obs')) = {}
    /\ pc' = "aborted"
    /\ UNCHANGED <<df, cond_i, basin_k, trend_vars, sens_vars, tool_vars>>
    /\ UNCHANGED <<curve_vars, sos_boot_vars, metric_vars, bootstrap_samples,
                   peak_boot_vars>>

\* Lines 61-136: the body of the loop for a group that holds rows; the
\* variables of the body are followed in Spec, not here.
Group ==
    /\ pc = "loop"
    /\ group_obs' = BasinData(df, cond_i, Basin)
    /\ Len(group_obs') > 0
    /\ TempDays(GroupMean(group_obs')) # {}
    /\ \E row \in BodyRows(cond_i + 1, Basin, group_obs') :
          results' = Append(results, row)
    /\ Advance
    /\ UNCHANGED <<df, trend_vars, sens_vars, tool_vars>>
    /\ UNCHANGED <<curve_vars, sos_boot_vars, metric_vars, bootstrap_samples,
                   bootstrap_median_dates, std2>>

LoopNext ==
    \/ Continue
    \/ GroupAborts
    \/ Group

LoopSpec == LoopInit /\ [][LoopNext]_vars

(***************************************************************************)
(* Properties of the loop.                                                 *)
(***************************************************************************)
\* The number of groups the loop has handled, and the group handled q-th
\* (from 0): its decade index and its station.
Handled == cond_i * Len(Basins) + basin_k
GroupCond(q) == q \div Len(Basins)
GroupBasin(q) == Basins[(q % Len(Basins)) + 1]
\* The groups among the first h of the loop that hold observations.
GroupsWithData(h) ==
    Sorted({q \in 0..(h - 1) :
              Len(BasinData(df, GroupCond(q), GroupBasin(q))) > 0})

\* C19: a station/decade group without observations is skipped: the step
\* that meets it appends no row, does not stop the run and moves on to the
\* next group, so that the metrics table holds, in loop order, exactly one
\* row for every group handled so far that has observations and none for
\* a group that has none.
C19_EmptyGroupSkipped ==
    /\ [](\A kept \in {GroupsWithData(Handled)} :
            /\ Len(results) = Len(kept)
            /\ \A k \in 1..Len(kept) :
                  /\ results[k].decade = GroupCond(kept[k]) + 1
                  /\ results[k].basin = GroupBasin(kept[k]))
    /\ [][pc = "loop" /\ Len(BasinData(df, cond_i, Basin)) = 0 =>
             /\ pc' # "aborted"
             /\ results' = results
             /\ cond_i' * Len(Basins) + basin_k' = Handled + 1]_vars
C19_Witness ==
    /\ pc = "loop_done"
    /\ Len(results) = 2
    /\ results[1].decade = 1 /\ results[1].basin = "Zanka"
    /\ results[2].decade = 4 /\ results[2].basin = "Tihany"

\* The decade the year of an observation belongs to, 0 for none.
DecadeOfYear(year) ==
    IF year < 1995 THEN 1
    ELSE IF year < 2005 THEN 2
    ELSE IF year < 2015 THEN 3
    ELSE IF year < 2024 THEN 4
    ELSE 0

\* C20: every observation of a year below 2024 satisfies exactly one of
\* the conditions, that of decade 1 if year < 1995, 2 if 1995 <= year <
\* 2005, 3 if 2005 <= year < 2015, 4 if 2015 <= year < 2024, and an
\* observation of 2024 or later satisfies none; every row of the metrics
\* table is the row of a decade and station to which an observation was
\* so assigned, and a loop that ends holds a row for every assigned
\* observation.
C20_DecadeAssignment ==
    /\ \A k \in 1..Len(df) :
          {i \in 0..(NumConditions - 1) : Condition(i, df[k].year)}
              = {d - 1 : d \in {DecadeOfYear(df[k].year)} \ {0}}
    /\ \A k \in 1..Len(results) :
          \E j \in 1..Len(df) :
              /\ df[j].Basin = results[k].basin
              /\ DecadeOfYear(df[j].year) = results[k].decade
    /\ pc = "loop_done" =>
          \A j \in 1..Len(df) :
              DecadeOfYear(df[j].year) # 0 =>
                  \E k \in 1..Len(results) :
                      /\ df[j].Basin = results[k].basin
                      /\ DecadeOfYear(df[j].year) = results[k].decade
C20_Witness ==
    /\ pc = "loop_done"
    /\ Len(df) = 2
    /\ df[1].year = 1995
    /\ df[2].year = 2024
    /\ Len(results) = 1
    /\ results[1].decade = 2

(***************************************************************************)
(* Further properties of the seasonal curve.                               *)
(***************************************************************************)
\* The days on which the group holds observations.
ObservedDays == {group_obs[i].doy : i \in 1..Len(group_obs)}
\* v is the value that filling over every observed day gives day d: the
\* mean of the day's observations, the line between the nearest observed
\* days on either side, or the value of the nearest observed day.
FilledOverObserved(d, v) ==
    LET means == GroupMean(group_obs)
        below == {t \in ObservedDays : t < d}
        above == {t \in ObservedDays : t > d}
    IN IF d \in ObservedDays THEN v = means[d]
       ELSE IF below # {} /\ above # {}
       THEN LET a == SetMax(below)
                b == SetMin(above)
            IN v * (b - a) = means[a] * (b - a) + (means[b] - means[a]) * (d - a)
       ELSE IF below # {} THEN v = means[SetMax(below)]
       ELSE v = means[SetMin(above)]

\* C25: gap filling works over the days 1..365: a day with observations
\* keeps their mean, a day between two observed days (day 365 included
\* among them) gets the linear interpolation between its nearest observed
\* neighbours, and a day before the first or after the last observed day
\* gets the value of that day.
C25_GapFillOverFullRange ==
    CurveBuilt =>
        \A i \in 1..Len(basin_data_daily) :
            FilledOverObserved(basin_data_daily[i].doy,
                               basin_data_daily[i].chla)

\* The gap-filled values of the curve, by position.
Chla == [i \in 1..Len(basin_data_daily) |-> basin_data_daily[i].chla]
\* The smoothed value at position i is the mean of the gap-filled values
\* of the positions lo..hi of the curve.
IsMeanOf(i, lo, hi) ==
    /\ 1 <= lo /\ lo <= hi /\ hi <= Len(basin_data_daily)
    /\ RatEq(Smoothed(i), Rat(SumInts(Chla, lo, hi), hi - lo + 1))
\* The window of `before` days before and `after` days after position i,
\* shortened at both ends by the least number of days that keeps it inside
\* the curve.
ShrunkSymmetrically(i, before, after) ==
    LET k == Max2(0, Max2(1 - (i - before),
                          (i + after) - Len(basin_data_daily)))
    IN IsMeanOf(i, i - before + k, i + after - k)

\* C26 as stated: for every day d of the curve the smoothed value is the
\* mean of the gap-filled values of the curve days inside a 30-day window
\* centred on d (15 days on one side of d and 14 on the other); near the
\* two ends of the curve the window shrinks symmetrically about d, as many
\* days dropped after d as before d, and no value from outside the curve
\* enters.
C26_WindowShrinksSymmetrically ==
    CurveBuilt =>
        \A i \in 1..Len(basin_data_daily) :
            \/ ShrunkSymmetrically(i, window_size \div 2,
                                   (window_size - 1) \div 2)
            \/ ShrunkSymmetrically(i, (window_size - 1) \div 2,
                                   window_size \div 2)

\* C26: for every day d of the curve the smoothed value is the mean of the
\* gap-filled values of the curve days among the 15 days before d, d and
\* the 14 days after d; near an end of the curve the window is cut at that
\* end only and keeps its full reach on the other side, and no value from
\* outside the curve enters the mean.
C26_WindowCutAtTheEnds ==
    CurveBuilt =>
        \A i \in 1..Len(basin_data_daily) :
            IsMeanOf(i, Max2(1, i - (window_size \div 2)),
                     Min2(Len(basin_data_daily),
                          i + ((window_size - 1) \div 2)))
\* A curve that rises at its last day: the window of the last day holds
\* the 15 days before it, and no symmetric window gives its mean.
C26_Witness ==
    /\ CurveBuilt
    /\ \E n \in {Len(basin_data_daily)} :
          /\ Chla[n - 1] < Chla[n]
          /\ IsMeanOf(n, n - (window_size \div 2), n)
          /\ ~ShrunkSymmetrically(n, window_size \div 2,
                                  (window_size - 1) \div 2)
          /\ ~ShrunkSymmetrically(n, (window_size - 1) \div 2,
                                  window_size \div 2)

(***************************************************************************)
(* Further properties of sens_slope.                                       *)
(***************************************************************************)
\* The index pairs i < j of the arguments with different x, the slope of
\* such a pair, and the number of pairs with a slope below (not above) v.
DistinctPairs ==
    {q \in (1..Len(sens_x)) \X (1..Len(sens_x)) :
        q[1] < q[2] /\ sens_x[q[2]] # sens_x[q[1]]}
SlopeOf(q) ==
    LET dy == sens_y[q[2]] - sens_y[q[1]]
        dx == sens_x[q[2]] - sens_x[q[1]]
    IN IF dx < 0 THEN Rat(0 - dy, 0 - dx) ELSE Rat(dy, dx)
SlopesBelow(v) == Cardinality({q \in DistinctPairs : RatLt(SlopeOf(q), v)})
SlopesNotAbove(v) == Cardinality({q \in DistinctPairs : RatLe(SlopeOf(q), v)})
\* v is the k-th smallest of the pairwise slopes.
IsKthSlope(v, k) ==
    /\ \E q \in DistinctPairs : RatEq(SlopeOf(q), v)
    /\ SlopesBelow(v) < k
    /\ k <= SlopesNotAbove(v)

\* C27: sens_slope(x, y) returns the median of the slopes (y_j - y_i) /
\* (x_j - x_i) over all index pairs i < j with x_j != x_i (the middle one
\* of an odd number of slopes, the mean of the two middle ones of an even
\* number); pairs with equal x are left out and never divide by zero, and
\* with the four mid-decade years exactly six slopes enter the median.
C27_SenSlopeMedianOfPairs ==
    pc = "sens_return" =>
        \A n \in {Cardinality(DistinctPairs)} :
            /\ n = 0 => sens_out = NoneRat
            /\ n > 0 => sens_out.den > 0
            /\ n > 0 /\ n % 2 = 1 => IsKthSlope(sens_out, (n + 1) \div 2)
            /\ n > 0 /\ n % 2 = 0 =>
                  \E p, q \in DistinctPairs :
                      /\ IsKthSlope(SlopeOf(p), n \div 2)
                      /\ IsKthSlope(SlopeOf(q), (n \div 2) + 1)
                      /\ RatEq(RatMul(sens_out, 2, 1),
                               RatAdd(SlopeOf(p), SlopeOf(q)))
            /\ sens_x = years => n = 6
\* Two points share x = 1: their pair is left out and the median of the
\* two remaining slopes 990 and 980 is returned.
C27_Witness ==
    /\ pc = "sens_return"
    /\ sens_x = <<1, 1, 2>>
    /\ sens_y = <<10, 20, 1000>>
    /\ RatEq(sens_out, Rat(985, 1))

(***************************************************************************)
(* Further properties of the extracted metrics.                            *)
(***************************************************************************)
\* C28: for every processed group, SOS is defined if and only if the
\* amplitude is above 0, and a defined SOS is a day of the curve that is
\* not after peak_doy; the row of the group holds these values.
C28_SosIffAmplitudeAndBeforePeak ==
    /\ Extracted =>
          /\ sos # None <=> RatLt(Rat(0, 1), amplitude)
          /\ sos # None => sos \in CurveDays /\ sos <= peak_doy
    /\ pc = "done" =>
          /\ Row.sos = sos /\ Row.amplitude = amplitude
          /\ Row.peak_doy = peak_doy
C28_Witness ==
    /\ pc = "done"
    /\ Row.sos # None
    /\ Row.sos < Row.peak_doy
    /\ RatLt(Rat(0, 1), Row.amplitude)

(***************************************************************************)
(* Further properties of the statistical analysis.                         *)
(***************************************************************************)
\* The loop of lines 206-217 has run, to its end or to an exception.
WeightLoopRan ==
    \/ pc \in {"method2", "method3", "plots"}
    \/ pc = "aborted" /\ Len(results_df) > 0

\* C29: every measurement that enters method 2 has a finite weight above
\* 0: no row with the peak uncertainty 0 reaches the weight computation
\* 1 / uncertainty^2, which gives every row of the corrected table one
\* weight.
C29_WeightsFiniteAndPositive ==
    WeightLoopRan =>
        /\ \A i \in 1..Len(results_df_filtered) :
              results_df_filtered[i].std2 # 0
        /\ Len(all_weights) = Len(results_df_filtered)
        /\ \A i \in 1..Len(all_weights) :
              all_weights[i].num > 0 /\ all_weights[i].den > 0

\* Each of the four decades has a row in the corrected table.
EveryDecadeHasRow ==
    \A d \in 1..Len(years) :
        \E i \in 1..Len(results_df) : Corrected(results_df)[i].decade = d
\* The mean of the corrected peak days of each of the four decades.
MeanOfDecade == [k \in 1..Len(years) |-> DecadeMean(Corrected(results_df), k)]

\* C30: methods 1 and 3 execute if and only if each of the four decades
\* has at least one row in the corrected table; the k-th value they use is
\* the mean of the corrected peak days of decade k, paired with the k-th
\* of the years 1989, 1999, 2009, 2019.
C30_DecadeMeansPairedWithYears ==
    AnalysisOver =>
        /\ Reported("METHOD 1") <=> EveryDecadeHasRow
        /\ Reported("METHOD 3") <=> EveryDecadeHasRow
        /\ Reported("METHOD 1") =>
              /\ mean_doy_values = MeanOfDecade
              /\ RatEq(LinesOf("METHOD 1").slope,
                       Linregress(years, MeanOfDecade).slope)
        /\ Reported("METHOD 3") =>
              /\ mean_doy_values = MeanOfDecade
              /\ RatEq(LinesOf("METHOD 3").sen_slope,
                       sens_slope(years, MeanOfDecade))

(***************************************************************************)
(* run_all_analyses.py: main (lines 47-119), run_script (lines 17-45) and  *)
(* sys.exit (lines 121-123).  os.makedirs and the listing of the figures   *)
(* are taken to succeed.                                                   *)
(***************************************************************************)
\* scripts (lines 72-78), by file name.
scripts ==
    <<"Phenology_Tab1_Fig9.py",
      "MonthlyCenterlineComparison_Fig3.py",
      "MonthlyCenterlineFitting_FigS4_Fig5.py",
      "SouthNorthPelagicRatio_Fig6.py",
      "SouthNorthPelagicComparison_Fig7.py">>
\* The return codes of a subprocess that are told apart: 0 and two others.
ReturnCodes == {0, 1, 2}
\* How a call of subprocess.run ended: with a return code, or raising.
Returned(rc) == [raised |-> FALSE, returncode |-> rc]
Raised == [raised |-> TRUE, returncode |-> None]

\* sys.exit(0 if success else 1)
ExitCodeZero(success) == 0
ExitCode(success) == IF success THEN 0 ELSE 1

\* The script the loop of line 83 hands to run_script.
FirstScript == scripts[1]
NextScript == scripts[script_k + 1]

RunInit ==
    /\ pc = "main"
    /\ src_exists \in BOOLEAN
    /\ data_exists \in BOOLEAN
    /\ script_k = 0
    /\ started = <<>>
    /\ running = ""
    /\ outcomes = <<>>
    /\ success_count = 0
    /\ exit_status = None
    /\ results = <<>>
    /\ BodyIdle /\ LoopIdle /\ TrendIdle /\ SensIdle /\ FitIdle

\* Lines 55-58: without 'src', main returns False.
SrcMissing ==
    /\ pc = "main"
    /\ ~src_exists
    /\ exit_status' = ExitCode(FALSE)
    /\ pc' = "exited"
    /\ UNCHANGED <<src_exists, data_exists, script_k, started, running,
                   outcomes, success_count>>
    /\ UNCHANGED <<results, body_vars, loop_vars, trend_vars, sens_vars,
                   fit_vars>>

\* Lines 61-64: without 'data', main returns False.
DataMissing ==
    /\ pc = "main"
    /\ src_exists
    /\ ~data_exists
    /\ exit_status' = ExitCode(FALSE)
    /\ pc' = "exited"
    /\ UNCHANGED <<src_exists, data_exists, script_k, started, running,
                   outcomes, success_count>>
    /\ UNCHANGED <<results, body_vars, loop_vars, trend_vars, sens_vars,
                   fit_vars>>

\* Lines 66-81: the figures directory, the list and success_count = 0.
EnterLoop ==
    /\ pc = "main"
    /\ src_exists
    /\ data_exists
    /\ success_count' = 0
    /\ pc' = "scripts"
    /\ UNCHANGED <<src_exists, data_exists, script_k, started, running,
                   outcomes, exit_status>>
    /\ UNCHANGED <<results, body_vars, loop_vars, trend_vars, sens_vars,
                   fit_vars>>

\* Lines 83-84 and 19-29: run_script hands the next script to
\* subprocess.run, which returns when the subprocess has finished.
StartScript ==
    /\ pc = "scripts"
    /\ running = ""
    /\ script_k < Len(scripts)
    /\ started' = Append(started, NextScript)
    /\ running' = NextScript
    /\ UNCHANGED <<pc, src_exists, data_exists, script_k, outcomes,
                   success_count, exit_status>>
    /\ UNCHANGED <<results, body_vars, loop_vars, trend_vars, sens_vars,
                   fit_vars>>

\* Lines 31-35, 45 and 85: return code 0, run_script returns True.
ScriptSucceeds ==
    /\ pc = "scripts"
    /\ running # ""
    /\ outcomes' = Append(outcomes, Returned(0))
    /\ success_count' = success_count + 1
    /\ script_k' = script_k + 1
    /\ running' = ""
    /\ UNCHANGED <<pc, src_exists, data_exists, started, exit_status>>
    /\ UNCHANGED <<results, body_vars, loop_vars, trend_vars, sens_vars,
                   fit_vars>>

\* Lines 36-39 and 86-87: another return code, run_script returns False
\* and the loop continues.
ScriptFails ==
    /\ pc = "scripts"
    /\ running # ""
    /\ \E rc \in ReturnCodes \ {0} :
          outcomes' = Append(outcomes, Returned(rc))
    /\ script_k' = script_k + 1
    /\ running' = ""
    /\ UNCHANGED <<pc, src_exists, data_exists, started, success_count,
                   exit_status>>
    /\ UNCHANGED <<results, body_vars, loop_vars, trend_vars, sens_vars,
                   fit_vars>>

\* Lines 41-43 and 86-87: subprocess.run raises, run_script returns False
\* and the loop continues.
SubprocessRaises ==
    /\ pc = "scripts"
    /\ running # ""
    /\ outcomes' = Append(outcomes, Raised)
    /\ script_k' = script_k + 1
    /\ running' = ""
    /\ UNCHANGED <<pc, src_exists, data_exists, started, success_count,
                   exit_status>>
    /\ UNCHANGED <<results, body_vars, loop_vars, trend_vars, sens_vars,
                   fit_vars>>

\* Lines 89-123: the summary, the return value of main and sys.exit.
Summary ==
    /\ pc = "scripts"
    /\ running = ""
    /\ script_k = Len(scripts)
    /\ exit_status' = ExitCode(success_count = Len(scripts))
    /\ pc' = "exited"
    /\ UNCHANGED <<src_exists, data_exists, script_k, started, running,
                   outcomes, success_count>>
    /\ UNCHANGED <<results, body_vars, loop_vars, trend_vars, sens_vars,
                   fit_vars>>

RunNext ==
    \/ SrcMissing
    \/ DataMissing
    \/ EnterLoop
    \/ StartScript
    \/ ScriptSucceeds
    \/ ScriptFails
    \/ SubprocessRaises
    \/ Summary

RunSpec == RunInit /\ [][RunNext]_vars

(***************************************************************************)
(* Properties of run_all_analyses.py.                                      *)
(***************************************************************************)
\* Both directory checks have passed.
ChecksPassed == src_exists /\ data_exists /\ pc # "main"

\* C22: once the checks of 'src' and 'data' have passed, main starts every
\* script of its list exactly once and in list order, each only after the
\* subprocess of the previous one has finished, whether or not an earlier
\* script returned a non-zero code or raised an exception.
C22_EveryScriptStartedInOrder ==
    /\ [](ChecksPassed =>
            /\ Len(started) <= Len(scripts)
            /\ started = SubSeq(scripts, 1, Len(started))
            /\ Len(outcomes) = Len(started) - (IF running = "" THEN 0 ELSE 1)
            /\ pc = "exited" => started = scripts)
    /\ [][started' # started =>
             /\ running = ""
             /\ Len(outcomes) = Len(started)
             /\ started' = Append(started, scripts[Len(started) + 1])]_vars
\* The first script failed, the second call raised, and every script of
\* the list was started.
C22_Witness ==
    /\ pc = "exited"
    /\ started = scripts
    /\ outcomes[1] = Returned(1)
    /\ outcomes[2] = Raised

\* Every script of the list finished with return code 0.
AllReturnedZero ==
    /\ Len(outcomes) = Len(scripts)
    /\ \A k \in 1..Len(outcomes) : outcomes[k] = Returned(0)

\* C23: run_all_analyses exits with status 0 if and only if 'src' and
\* 'data' both exist and every listed script finished with return code 0,
\* and with status 1 in every other case; when a directory is missing no
\* script is started.
C23_ExitStatus ==
    /\ pc = "exited" =>
          /\ exit_status \in {0, 1}
          /\ exit_status = 0 <=>
                src_exists /\ data_exists /\ AllReturnedZero
    /\ pc # "exited" => exit_status = None
    /\ ~(src_exists /\ data_exists) => started = <<>>
C23_Witness ==
    /\ pc = "exited"
    /\ exit_status = 0
    /\ AllReturnedZero

\* The figure scripts of the repository (the files of src/).
FigureScripts ==
    {"Phenology_Tab1_Fig9.py",
     "MonthlyCenterlineComparison_Fig3.py",
     "SpatioTemporalAsynchrony_Fig4.py",
     "MonthlyCenterlineFitting_FigS4_Fig5.py",
     "MonthlyCenterlineFitting_singleMonth_Fig5.py",
     "SouthNorthPelagicRatio_Fig6.py",
     "SouthNorthPelagicComparison_Fig7.py",
     "TransectionalOverlay_Fig8.py"}

\* C24: one invocation of run_all_analyses runs all the analysis scripts
\* of the repository: when it exits after passing the directory checks,
\* every figure script under src/ has been started.
C24_AllFigureScriptsStarted ==
    pc = "exited" /\ ChecksPassed =>
        \A f \in FigureScripts : \E k \in 1..Len(started) : started[k] = f

(***************************************************************************)
(* The fit loops of MonthlyCenterlineFitting_FigS4_Fig5.py (lines 87-165,  *)
(* then the statistics of lines 209-288) and of                            *)
(* MonthlyCenterlineFitting_singleMonth_Fig5.py (create_single_fitting_plot,*)
(* lines 91-171).  curve_fit either returns parameters or raises the       *)
(* RuntimeError of a fit that does not converge; np.polyfit solves a       *)
(* least-squares system directly.  The single-month script is modelled     *)
(* for a month that holds observations.                                    *)
(***************************************************************************)
\* Largest number of (decade, month) combinations of the FigS4 loop
\* (len(decades) * len(months) in the script).
MaxCombinations == 2
FitScripts == {"FigS4_Fig5", "singleMonth_Fig5"}
\* functions.items(), in insertion order.
Labels == <<"Lin", "Log", "Poly", "Exp">>
LabelSet == {Labels[k] : k \in 1..Len(Labels)}
\* The number of combinations the script fits.
NumCombinations == IF fit_script = "FigS4_Fig5" THEN MaxCombinations ELSE 1
\* The (label, func) pair the inner loop is at.
Label == Labels[label_k + 1]
\* f"{label}: {equation} ({r2:.2f},{rmse:.2f})"
FitText(label) == [label |-> label, text |-> "equation"]
\* f"{label}: fit failed" and f"{label} fit failed: {e}"
FailedText(label) == [label |-> label, text |-> "fit failed"]
\* annotations.append(text) for the combination in hand.
Annotate(text) ==
    [annotations EXCEPT ![combo_k + 1] = Append(@, text)]
\* results[label]['r2'].append(r2); results[label]['rmse'].append(rmse):
\* only the FigS4 script keeps the dictionary.  A stored pair is stood for
\* by the combination it was computed from.
Store(label) ==
    IF fit_script = "FigS4_Fig5"
    THEN [fit_results EXCEPT ![label] = Append(@, combo_k + 1)]
    ELSE fit_results
\* The call of curve_fit or np.polyfit that has just ended.
Call(converged) ==
    [combo |-> combo_k + 1, label |-> Label, converged |-> converged]
\* Where the loop stands after the except clause: at the next label.
AfterExceptRaise == "fit_aborted"
AfterExcept == "fit_label"

FitInit ==
    /\ pc = "fit_combo"
    /\ fit_script \in FitScripts
    /\ has_data \in [1..NumCombinations -> BOOLEAN]
    /\ fit_script = "singleMonth_Fig5" => has_data[1]
    /\ combo_k = 0
    /\ label_k = 0
    /\ annotations = [c \in 1..NumCombinations |-> <<>>]
    /\ fit_results = [l \in LabelSet |-> <<>>]
    /\ fit_printed = <<>>
    /\ fit_calls = <<>>
    /\ results = <<>>
    /\ BodyIdle /\ LoopIdle /\ TrendIdle /\ SensIdle /\ RunIdle

\* FigS4 lines 104-106: a combination without rows is skipped.
SkipCombination ==
    /\ pc = "fit_combo"
    /\ combo_k < NumCombinations
    /\ ~has_data[combo_k + 1]
    /\ combo_k' = combo_k + 1
    /\ UNCHANGED <<pc, fit_script, has_data, label_k, annotations,
                   fit_results, fit_printed, fit_calls>>
    /\ UNCHANGED <<results, body_vars, loop_vars, trend_vars, sens_vars,
                   run_vars>>

\* FigS4 lines 108-112, singleMonth lines 106-110: the scatter plot,
\* annotations = [] and the entry of the loop over the functions.
BeginCombination ==
    /\ pc = "fit_combo"
    /\ combo_k < NumCombinations
    /\ has_data[combo_k + 1]
    /\ label_k' = 0
    /\ pc' = "fit_label"
    /\ UNCHANGED <<fit_script, has_data, combo_k, annotations, fit_results,
                   fit_printed, fit_calls>>
    /\ UNCHANGED <<results, body_vars, loop_vars, trend_vars, sens_vars,
                   run_vars>>

\* FigS4 lines 116-128, singleMonth lines 113-123: the polynomial.
PolyFit ==
    /\ pc = "fit_label"
    /\ label_k < Len(Labels)
    /\ Label = "Poly"
    /\ fit_results' = Store(Label)
    /\ annotations' = Annotate(FitText(Label))
    /\ fit_calls' = Append(fit_calls, Call(TRUE))
    /\ label_k' = label_k + 1
    /\ UNCHANGED <<pc, fit_script, has_data, combo_k, fit_printed>>
    /\ UNCHANGED <<results, body_vars, loop_vars, trend_vars, sens_vars,
                   run_vars>>

\* FigS4 lines 130-156, singleMonth lines 128-148: curve_fit returns.
CurveFitConverges ==
    /\ pc = "fit_label"
    /\ label_k < Len(Labels)
    /\ Label # "Poly"
    /\ fit_results' = Store(Label)
    /\ annotations' = Annotate(FitText(Label))
    /\ fit_calls' = Append(fit_calls, Call(TRUE))
    /\ label_k' = label_k + 1
    /\ UNCHANGED <<pc, fit_script, has_data, combo_k, fit_printed>>
    /\ UNCHANGED <<results, body_vars, loop_vars, trend_vars, sens_vars,
                   run_vars>>

\* FigS4 lines 130 and 158-160, singleMonth lines 128 and 150-151:
\* curve_fit raises RuntimeError.  FigS4 annotates and prints, the
\* single-month script prints.
CurveFitFails ==
    /\ pc = "fit_label"
    /\ label_k < Len(Labels)
    /\ Label # "Poly"
    /\ annotations' = IF fit_script = "FigS4_Fig5"
                      THEN Annotate(FailedText(Label))
                      ELSE annotations
    /\ fit_printed' = Append(fit_printed, FailedText(Label))
    /\ fit_calls' = Append(fit_calls, Call(FALSE))
    /\ label_k' = label_k + 1
    /\ pc' = AfterExcept
    /\ UNCHANGED <<fit_script, has_data, combo_k, fit_results>>
    /\ UNCHANGED <<results, body_vars, loop_vars, trend_vars, sens_vars,
                   run_vars>>

\* FigS4 lines 162-198, singleMonth lines 153-156: the annotations are
\* drawn and the combination is finished.
EndCombination ==
    /\ pc = "fit_label"
    /\ label_k = Len(Labels)
    /\ combo_k' = combo_k + 1
    /\ pc' = "fit_combo"
    /\ UNCHANGED <<fit_script, has_data, label_k, annotations, fit_results,
                   fit_printed, fit_calls>>
    /\ UNCHANGED <<results, body_vars, loop_vars, trend_vars, sens_vars,
                   run_vars>>

\* FigS4 lines 200-290, singleMonth lines 158-171: the figures are saved
\* (and the statistics of the stored values printed) and the script ends.
FitFinish ==
    /\ pc = "fit_combo"
    /\ combo_k = NumCombinations
    /\ pc' = "fit_done"
    /\ UNCHANGED fit_vars
    /\ UNCHANGED <<results, body_vars, loop_vars, trend_vars, sens_vars,
                   run_vars>>

FitNext ==
    \/ SkipCombination
    \/ BeginCombination
    \/ PolyFit
    \/ CurveFitConverges
    \/ CurveFitFails
    \/ EndCombination
    \/ FitFinish

FitSpec == FitInit /\ [][FitNext]_vars

(***************************************************************************)
(* Properties of the fit loops.                                            *)
(***************************************************************************)
\* The combinations that hold rows, in loop order.
DataCombos ==
    SelectSeq([c \in 1..NumCombinations |-> c], LAMBDA c : has_data[c])
\* The i-th fit of a run in which nothing stops the loops.
AttemptCombo(i) == DataCombos[((i - 1) \div Len(Labels)) + 1]
AttemptLabel(i) == Labels[((i - 1) % Len(Labels)) + 1]
\* The fits that raised, in order, as the lines they printed.
FailedCalls == SelectSeq(fit_calls, LAMBDA e : ~e.converged)
\* text is among the annotations of combination c.
Annotated(c, text) ==
    \E k \in 1..Len(annotations[c]) : annotations[c][k] = text
\* An R2/RMSE pair of combination c is stored under label.
Stored(c, label) ==
    \E k \in 1..Len(fit_results[label]) : fit_results[label][k] = c

\* C21: in the curve-fitting scripts a fit that fails to converge is
\* recorded as "fit failed" for its model and combination (printed by both
\* scripts, annotated on the subplot by the FigS4 script), no R2/RMSE is
\* stored for it, the run is not aborted, and the remaining models and
\* combinations are still fitted in loop order.
C21_FitFailureRecordedAndSkipped ==
    /\ pc \in {"fit_combo", "fit_label", "fit_done"}
    /\ Len(fit_printed) = Len(FailedCalls)
    /\ \A k \in 1..Len(FailedCalls) :
          fit_printed[k] = FailedText(FailedCalls[k].label)
    /\ \A k \in 1..Len(fit_calls) :
          \A e \in {fit_calls[k]} :
             /\ k <= Len(Labels) * Len(DataCombos)
             /\ e.combo = AttemptCombo(k)
             /\ e.label = AttemptLabel(k)
             /\ ~e.converged =>
                   /\ ~Stored(e.combo, e.label)
                   /\ ~Annotated(e.combo, FitText(e.label))
                   /\ fit_script = "FigS4_Fig5" =>
                         Annotated(e.combo, FailedText(e.label))
             /\ e.converged =>
                   /\ Annotated(e.combo, FitText(e.label))
                   /\ fit_script = "FigS4_Fig5" => Stored(e.combo, e.label)
    /\ pc = "fit_done" => Len(fit_calls) = Len(Labels) * Len(DataCombos)
\* The linear fit of the first combination failed, and the run went on to
\* fit and store every model of the second combination.
C21_Witness ==
    /\ pc = "fit_done"
    /\ fit_script = "FigS4_Fig5"
    /\ Len(fit_calls) = 2 * Len(Labels)
    /\ ~fit_calls[1].converged
    /\ fit_calls[1].label = "Lin"
    /\ Annotated(1, FailedText("Lin"))
    /\ \A l \in LabelSet : Stored(2, l)

=============================================================================
